---- MODULE Spec2Model ----
(***************************************************************************)
(* Portfolio generator: the chat turn of src/app.py (chat_with_agent) and  *)
(* the HTML structural repair of src/main.py (complete_html_structure).    *)
(*                                                                         *)
(* Texts are sequences of tokens.  A token stands for one piece of real    *)
(* text (a tag, a run of characters); Width gives its character count.     *)
(* A parsed document (BeautifulSoup with html.parser) is represented by    *)
(* its balanced token sequence, which is also what str(soup) prints.       *)
(***************************************************************************)
EXTENDS Integers, Sequences, FiniteSets, TLC

(***************************************************************************)
(* Bounds of the model                                                     *)
(***************************************************************************)
\* a <style> block of an input document has 0..MaxBraces "{" and "}" each
MaxBraces == 2

\* the same for a <style> block in the body of an input document
MaxBodyBraces == 1

(***************************************************************************)
(* Tokens                                                                  *)
(***************************************************************************)
\* start tags as they may be written in an input, and the tag name
\* html.parser reports for them (it lower-cases names)
OpenTags ==
    { "<html>", "<HTML>", "<html lang>", "<head>", "<HEAD>", "<head id>", "<body>", "<BODY>",
      "<title>", "<style>", "<script>", "<p>", "<div>", "<i fa>" }

CloseTags ==
    { "</html>", "</HTML>", "</head>", "</HEAD>", "</body>", "</BODY>",
      "</title>", "</style>", "</script>", "</p>", "</div>", "</i>" }

\* void elements, as written (">") and as BeautifulSoup prints them ("/>")
VoidTagsIn ==
    { "<meta charset>", "<meta viewport>", "<link ss>", "<link fa>", "<link kit>", "<meta desc>", "<meta kw>" }

VoidTagsOut ==
    { "<meta charset/>", "<meta viewport/>", "<link ss/>", "<link fa/>", "<link kit/>", "<meta desc/>", "<meta kw/>" }

\* character data and the doctype ("NL" is a line break)
TextTokens == { "<!DOCTYPE html>", "NL", "hi", "Portfolio", "css", "{", "}", "js", "txt" }

\* markdown fences of a model response: three backquotes with html, json or
\* no tag and a line break; a line break and three backquotes
FenceTokens == { "[fence html]", "[fence]", "[fence json]", "[/fence]" }

Tokens == OpenTags \cup CloseTags \cup VoidTagsIn \cup VoidTagsOut \cup TextTokens \cup FenceTokens

\* the tag name of a start, end or void tag
TagName(t) ==
    CASE t \in {"<html>", "<HTML>", "<html lang>", "</html>", "</HTML>"} -> "html"
      [] t \in {"<head>", "<HEAD>", "<head id>", "</head>", "</HEAD>"} -> "head"
      [] t \in {"<body>", "<BODY>", "</body>", "</BODY>"} -> "body"
      [] t \in {"<title>", "</title>"} -> "title"
      [] t \in {"<style>", "</style>"} -> "style"
      [] t \in {"<script>", "</script>"} -> "script"
      [] t \in {"<p>", "</p>"} -> "p"
      [] t \in {"<div>", "</div>"} -> "div"
      [] t \in {"<i fa>", "</i>"} -> "i"
      [] t \in {"<meta charset>", "<meta charset/>", "<meta desc>", "<meta desc/>",
                "<meta kw>", "<meta kw/>", "<meta viewport>", "<meta viewport/>"} -> "meta"
      [] t \in {"<link ss>", "<link ss/>", "<link fa>", "<link fa/>",
                "<link kit>", "<link kit/>"} -> "link"
      [] OTHER -> ""

\* how str(soup) prints a start tag: the name in lower case, attributes kept
OpenOut(t) ==
    CASE t \in {"<html>", "<HTML>"} -> "<html>"
      [] t \in {"<head>", "<HEAD>"} -> "<head>"
      [] t \in {"<body>", "<BODY>"} -> "<body>"
      [] OTHER -> t

\* how str(soup) prints the end tag of an element
CloseOut(name) ==
    CASE name = "html" -> "</html>"
      [] name = "head" -> "</head>"
      [] name = "body" -> "</body>"
      [] name = "title" -> "</title>"
      [] name = "style" -> "</style>"
      [] name = "script" -> "</script>"
      [] name = "p" -> "</p>"
      [] name = "div" -> "</div>"
      [] OTHER -> "</i>"

\* how str(soup) prints a void element: with "/>"
VoidOut(t) ==
    CASE t \in {"<meta charset>", "<meta charset/>"} -> "<meta charset/>"
      [] t \in {"<meta desc>", "<meta desc/>"} -> "<meta desc/>"
      [] t \in {"<meta kw>", "<meta kw/>"} -> "<meta kw/>"
      [] t \in {"<meta viewport>", "<meta viewport/>"} -> "<meta viewport/>"
      [] t \in {"<link ss>", "<link ss/>"} -> "<link ss/>"
      [] t \in {"<link fa>", "<link fa/>"} -> "<link fa/>"
      [] OTHER -> "<link kit/>"

IsVoid(t) == t \in VoidTagsIn \cup VoidTagsOut

\* the number of characters of the text a token stands for
Width(t) ==
    CASE t = "<!DOCTYPE html>" -> 15
      [] t \in {"<html>", "<HTML>", "<head>", "<HEAD>", "<body>", "<BODY>"} -> 6
      [] t \in {"</html>", "</HTML>", "</head>", "</HEAD>", "</body>", "</BODY>"} -> 7
      [] t = "<html lang>" -> 16
      [] t \in {"<title>", "<style>"} -> 7
      [] t \in {"</title>", "</style>", "<script>"} -> 8
      [] t = "</script>" -> 9
      [] t \in {"<p>"} -> 3
      [] t \in {"</p>", "</i>"} -> 4
      [] t = "<div>" -> 5
      [] t = "</div>" -> 6
      [] t = "<i fa>" -> 19
      [] t = "<meta charset>" -> 22
      [] t = "<meta charset/>" -> 23
      [] t = "<link ss>" -> 40
      [] t = "<link ss/>" -> 41
      [] t = "<link fa>" -> 104
      [] t = "<link fa/>" -> 105
      [] t = "<link kit>" -> 60
      [] t = "<link kit/>" -> 61
      [] t = "<meta desc>" -> 70
      [] t = "<meta desc/>" -> 71
      [] t = "<meta kw>" -> 70
      [] t = "<meta kw/>" -> 71
      [] t = "<meta viewport>" -> 70
      [] t = "<meta viewport/>" -> 71
      [] t \in {"NL", "{", "}"} -> 1
      [] t \in {"hi", "js"} -> 2
      [] t \in {"css", "txt"} -> 3
      [] t = "Portfolio" -> 9
      [] t = "[fence html]" -> 8
      [] t = "[fence json]" -> 8
      [] OTHER -> 4

RECURSIVE TextLen(_)
\* len(text)
TextLen(s) == IF s = <<>> THEN 0 ELSE Width(Head(s)) + TextLen(Tail(s))

RECURSIVE CountTok(_, _)
\* text.count(tok)
CountTok(s, tok) ==
    IF s = <<>> THEN 0
    ELSE (IF Head(s) = tok THEN 1 ELSE 0) + CountTok(Tail(s), tok)

RECURSIVE Repeat(_, _)
\* tok * n
Repeat(tok, n) == IF n <= 0 THEN <<>> ELSE <<tok>> \o Repeat(tok, n - 1)

\* F applied to the value of x: Python evaluates an argument once, before
\* the call
Strict(F(_), x) == CHOOSE r \in { F(v) : v \in {x} } : TRUE

InsertAtV(v) == SubSeq(v[1], 1, v[2]) \o v[3] \o SubSeq(v[1], v[2] + 1, Len(v[1]))

InsertAt(s, k, ins) == Strict(InsertAtV, <<s, k, ins>>)

(***************************************************************************)
(* BeautifulSoup(text, html.parser)                                        *)
(***************************************************************************)
RECURSIVE CloseAll(_)
\* the end tags of the elements still open, innermost first
CloseAll(stack) ==
    IF stack = <<>> THEN <<>>
    ELSE <<CloseOut(stack[Len(stack)])>> \o CloseAll(SubSeq(stack, 1, Len(stack) - 1))

RECURSIVE PopTo(_, _)
\* _popToTag: close the open elements down to and including the innermost `name`
PopTo(stack, name) ==
    IF stack[Len(stack)] = name THEN [out |-> <<CloseOut(name)>>, stack |-> SubSeq(stack, 1, Len(stack) - 1)]
    ELSE LET r == PopTo(SubSeq(stack, 1, Len(stack) - 1), name)
         IN  [out |-> <<CloseOut(stack[Len(stack)])>> \o r.out, stack |-> r.stack]

RECURSIVE ParseFrom(_, _, _)
ParseFrom(s, stack, out) ==
    IF s = <<>> THEN out \o CloseAll(stack)
    ELSE LET t == Head(s) IN
         IF t \in OpenTags THEN ParseFrom(Tail(s), Append(stack, TagName(t)), Append(out, OpenOut(t)))
         ELSE IF IsVoid(t) THEN ParseFrom(Tail(s), stack, Append(out, VoidOut(t)))
         ELSE IF t \in CloseTags THEN
              IF \E i \in 1..Len(stack) : stack[i] = TagName(t)
              THEN LET r == PopTo(stack, TagName(t))
                   IN  ParseFrom(Tail(s), r.stack, out \o r.out)
              ELSE ParseFrom(Tail(s), stack, out)
         ELSE ParseFrom(Tail(s), stack, Append(out, t))

\* character data between two tags forms one string
IsData(t) == t \in TextTokens \ {"<!DOCTYPE html>"}

RECURSIVE RunEnd(_, _)
\* index of the last token of the run of character data that starts at i
RunEnd(s, i) == IF i < Len(s) /\ IsData(s[i + 1]) THEN RunEnd(s, i + 1) ELSE i

RECURSIVE CollapseWs(_)
CollapseWsV(s) ==
    IF s = <<>> THEN <<>>
    ELSE IF ~IsData(s[1]) THEN <<s[1]>> \o CollapseWs(Tail(s))
    ELSE LET e == RunEnd(s, 1)
             run == SubSeq(s, 1, e)
         IN  (IF \A k \in 1..e : run[k] = "NL" THEN <<"NL">> ELSE run)
             \o CollapseWs(SubSeq(s, e + 1, Len(s)))

\* endData: a string that is only white space is kept as one line break
CollapseWs(s) == Strict(CollapseWsV, s)

\* the tree BeautifulSoup builds, as its balanced token sequence: names in
\* lower case, void elements closed, stray end tags dropped, open elements
\* closed at the end of the input
ParseV(s) == CollapseWs(ParseFrom(s, <<>>, <<>>))

Parse(s) == Strict(ParseV, s)

IsOpenTok(t) == t \in OpenTags

\* soup.find(name): index of the first element of that name, 0 if none
FindTag(s, name) ==
    IF \E i \in 1..Len(s) : (IsOpenTok(s[i]) \/ IsVoid(s[i])) /\ TagName(s[i]) = name
    THEN CHOOSE i \in 1..Len(s) :
            /\ (IsOpenTok(s[i]) \/ IsVoid(s[i])) /\ TagName(s[i]) = name
            /\ \A j \in 1..(i - 1) : ~((IsOpenTok(s[j]) \/ IsVoid(s[j])) /\ TagName(s[j]) = name)
    ELSE 0

HasTag(s, name) == FindTag(s, name) # 0

RECURSIVE MatchFrom(_, _, _)
MatchFrom(s, j, depth) ==
    IF j > Len(s) THEN Len(s) + 1
    ELSE IF IsOpenTok(s[j]) THEN MatchFrom(s, j + 1, depth + 1)
    ELSE IF s[j] \in CloseTags THEN (IF depth = 0 THEN j ELSE MatchFrom(s, j + 1, depth - 1))
    ELSE MatchFrom(s, j + 1, depth)

\* index of the end tag of the element that starts at index i
MatchClose(s, i) == MatchFrom(s, i + 1, 0)

(***************************************************************************)
(* complete_html_structure (src/main.py)                                   *)
(***************************************************************************)
\* an entry of fixes_made; n is the number a brace entry names, else 0
Fix(what) == [fix |-> what, n |-> 0]

BraceFix(k) == [fix |-> "Added missing CSS closing braces", n |-> k]

\* the skeleton with the <body> start tag left out
WrapPrefixNoBody ==
    << "<!DOCTYPE html>", "NL", "<html lang>", "NL", "<head>", "NL", "<meta charset>", "NL",
       "<title>", "Portfolio", "</title>", "NL", "</head>", "NL" >>

\* the literal skeleton put around a document that has no <html> element
WrapPrefix ==
    << "<!DOCTYPE html>", "NL", "<html lang>", "NL", "<head>", "NL", "<meta charset>", "NL",
       "<title>", "Portfolio", "</title>", "NL", "</head>", "NL", "<body>", "NL" >>

WrapSuffix == << "NL", "</body>", "NL", "</html>" >>

\* the head element synthesized when <html> has none
NewHead == << "<head>", "<meta charset/>", "<title>", "Portfolio", "</title>", "</head>" >>

\* the default style element; its text has one "{" and one "}"
NewStyle == << "<style>", "css", "{", "css", "}", "NL", "</style>" >>

NewFaLink == << "<link fa/>" >>

\* html_tag.insert(0, head_tag): the new head becomes the first child of <html>
AddHead(soup) == InsertAt(soup, FindTag(soup, "html"), NewHead)

RECURSIVE SplitKids(_, _, _, _, _)
SplitKidsV(v) ==
    LET kids == v[1]
        depth == v[2]
        inHead == v[3]
        heads == v[4]
        others == v[5]
    IN  IF kids = <<>> THEN [heads |-> heads, others |-> others]
        ELSE LET t == Head(kids)
                 startsHead == depth = 0 /\ IsOpenTok(t) /\ TagName(t) = "head"
                 h == IF depth = 0 THEN startsHead ELSE inHead
                 d == IF IsOpenTok(t) THEN depth + 1
                      ELSE IF t \in CloseTags THEN depth - 1 ELSE depth
             IN  IF h THEN SplitKids(Tail(kids), d, h, Append(heads, t), others)
                 ELSE SplitKids(Tail(kids), d, h, heads, Append(others, t))

\* the children of <html>, split into the head elements, which stay, and
\* everything else, which moves; depth 0 is the level of the children
SplitKids(kids, depth, inHead, heads, others) ==
    Strict(SplitKidsV, <<kids, depth, inHead, heads, others>>)

\* a new body takes every child of <html> whose name is not head, in order,
\* and is appended to <html>
AddBodyV(soup) ==
    LET h == FindTag(soup, "html")
        c == MatchClose(soup, h)
        r == SplitKids(SubSeq(soup, h + 1, c - 1), 0, FALSE, <<>>, <<>>)
    IN  SubSeq(soup, 1, h) \o r.heads \o <<"<body>">> \o r.others \o <<"</body>">>
        \o SubSeq(soup, c, Len(soup))

\* a new body that takes every child of <html>, the head included
AddBodyAll(soup) ==
    LET h == FindTag(soup, "html")
        c == MatchClose(soup, h)
    IN  SubSeq(soup, 1, h) \o <<"<body>">> \o SubSeq(soup, h + 1, c - 1) \o <<"</body>">>
        \o SubSeq(soup, c, Len(soup))

AddBody(soup) == Strict(AddBodyV, soup)

\* head_tag.append(x): x becomes the last child of the first head element
AppendToHead(soup, x) == InsertAt(soup, MatchClose(soup, FindTag(soup, "head")) - 1, x)

\* soup.find('link', attrs={'rel': 'stylesheet'})
HasStylesheetLink(soup) == \E i \in 1..Len(soup) : soup[i] \in {"<link ss/>", "<link fa/>", "<link kit/>"}

\* soup.find('link', href containing font-awesome)
HasFaLink(soup) == \E i \in 1..Len(soup) : soup[i] = "<link fa/>"

\* 'fa-' in text: only the icon element carries an fa- class
UsesFa(text) == \E i \in 1..Len(text) : text[i] = "<i fa>"

RECURSIVE FixStylesShort(_, _, _)
FixStylesShortV(v) ==
    LET s == v[1]
        out == v[2]
        fixes == v[3]
    IN  IF s = <<>> THEN [soup |-> out, fixes |-> fixes]
        ELSE IF s[1] # "<style>" THEN FixStylesShort(Tail(s), Append(out, s[1]), fixes)
        ELSE LET c == MatchClose(s, 1)
                 css == SubSeq(s, 2, c - 1)
                 open_braces == CountTok(css, "{")
                 close_braces == CountTok(css, "}")
                 rest == SubSeq(s, c + 1, Len(s))
             IN  IF css # <<>> /\ open_braces > close_braces
                 THEN FixStylesShort(rest,
                          out \o <<"<style>">> \o css \o <<"NL">>
                              \o Repeat("}", open_braces - close_braces - 1) \o <<"</style>">>,
                          Append(fixes, BraceFix(open_braces - close_braces - 1)))
                 ELSE FixStylesShort(rest, out \o SubSeq(s, 1, c), fixes)

\* the loop with one closing brace too few appended and recorded
FixStylesShort(s, out, fixes) == Strict(FixStylesShortV, <<s, out, fixes>>)

RECURSIVE FixStyles(_, _, _)
FixStylesV(v) ==
    LET s == v[1]
        out == v[2]
        fixes == v[3]
    IN  IF s = <<>> THEN [soup |-> out, fixes |-> fixes]
        ELSE IF s[1] # "<style>" THEN FixStyles(Tail(s), Append(out, s[1]), fixes)
        ELSE LET c == MatchClose(s, 1)
                 css == SubSeq(s, 2, c - 1)
                 open_braces == CountTok(css, "{")
                 close_braces == CountTok(css, "}")
                 rest == SubSeq(s, c + 1, Len(s))
             IN  IF css # <<>> /\ open_braces > close_braces
                 THEN FixStyles(rest,
                          out \o <<"<style>">> \o css \o <<"NL">>
                              \o Repeat("}", open_braces - close_braces) \o <<"</style>">>,
                          Append(fixes, BraceFix(open_braces - close_braces)))
                 ELSE FixStyles(rest, out \o SubSeq(s, 1, c), fixes)

\* the loop over soup.find_all('style'): out is the document rebuilt so far;
\* a block whose text lacks closing braces gets a line break and the braces
FixStyles(s, out, fixes) == Strict(FixStylesV, <<s, out, fixes>>)

\* the state of one run: the tree, fixed_html and fixes_made
RepairState(soup, fixed, fixes) == [soup |-> soup, fixed |-> fixed, fixes |-> fixes]

\* no <html>: the skeleton is put around str(soup) and parsed again
WrapV(soup0) ==
    RepairState(Parse(WrapPrefix \o soup0 \o WrapSuffix), WrapPrefix \o soup0 \o WrapSuffix,
                <<Fix("Added basic HTML structure")>>)

\* <html> without <head>
HeadStepV(st) ==
    IF ~HasTag(st.soup, "head")
    THEN RepairState(AddHead(st.soup), st.fixed, Append(st.fixes, Fix("Added head tag")))
    ELSE st

\* <html> without <body>; then fixed_html = str(soup)
BodyStepV(st) ==
    IF ~HasTag(st.soup, "body")
    THEN RepairState(AddBody(st.soup), AddBody(st.soup), Append(st.fixes, Fix("Added body tag")))
    ELSE RepairState(st.soup, st.soup, st.fixes)

\* the parse and the <html>, <head>, <body> checks
StructureStepV(soup0) ==
    IF ~HasTag(soup0, "html") THEN WrapV(soup0)
    ELSE Strict(BodyStepV, Strict(HeadStepV, RepairState(soup0, soup0, <<>>)))

\* no <style> and no stylesheet link: the default style goes into <head>
CssStepV(st) ==
    IF ~HasTag(st.soup, "style") /\ ~HasStylesheetLink(st.soup)
    THEN RepairState(AppendToHead(st.soup, NewStyle), AppendToHead(st.soup, NewStyle),
                     Append(st.fixes, Fix("Added basic CSS")))
    ELSE st

\* fa- in fixed_html and no icon-font link: the link goes into <head>
FaStepV(st) ==
    IF UsesFa(st.fixed) /\ ~HasFaLink(st.soup)
    THEN RepairState(AppendToHead(st.soup, NewFaLink), AppendToHead(st.soup, NewFaLink),
                     Append(st.fixes, Fix("Added Font Awesome link")))
    ELSE st

\* the brace check of every style block
BraceStepV(st) ==
    LET r == FixStyles(st.soup, <<>>, <<>>)
    IN  IF r.fixes # <<>> THEN RepairState(r.soup, r.soup, st.fixes \o r.fixes) ELSE st

\* a report that adds the entry for a valid document to every list
ReportAlwaysValidV(v) ==
    LET st == v[1]
        html_content == v[2]
        fixes == IF TextLen(st.fixed) # TextLen(html_content) /\ st.fixed # html_content
                 THEN Append(st.fixes, Fix("Fixed HTML structure and missing tags"))
                 ELSE st.fixes
    IN  [html |-> st.fixed, fixes |-> Append(fixes, Fix("HTML structure is already valid"))]

\* the comparison with the input and the entry for a valid document
ReportV(v) ==
    LET st == v[1]
        html_content == v[2]
        fixes == IF TextLen(st.fixed) # TextLen(html_content) /\ st.fixed # html_content
                 THEN Append(st.fixes, Fix("Fixed HTML structure and missing tags"))
                 ELSE st.fixes
    IN  [html |-> st.fixed,
         fixes |-> IF fixes = <<>> THEN <<Fix("HTML structure is already valid")>> ELSE fixes]

complete_html_structureV(html_content) ==
    Strict(ReportV,
           << Strict(BraceStepV, Strict(FaStepV, Strict(CssStepV,
                  Strict(StructureStepV, Parse(html_content))))),
              html_content >>)

\* complete_html_structure(html_content): [html, fixes]
complete_html_structure(html_content) == Strict(complete_html_structureV, html_content)

\* the statements of the try block at which a run may fail
FailPoints == { "parse", "structure", "css", "icons", "braces", "report" }

\* soup, fixed_html and fixes_made when the statement at point fails: what
\* the statements before it have done
PartialV(v) ==
    LET html_content == v[1]
        point == v[2]
        s1 == Strict(StructureStepV, Parse(html_content))
        s2 == Strict(CssStepV, s1)
        s3 == Strict(FaStepV, s2)
    IN  CASE point = "parse" -> RepairState(<<>>, <<>>, <<>>)
          [] point = "structure" -> RepairState(Parse(html_content), Parse(html_content), <<>>)
          [] point = "css" -> s1
          [] point = "icons" -> s2
          [] point = "braces" -> s3
          [] OTHER -> Strict(BraceStepV, s3)

Partial(html_content, point) == Strict(PartialV, <<html_content, point>>)

\* a handler that returns the work done so far with the error entry added
RecoverPartial(st, html_content) ==
    [html |-> st.fixed, fixes |-> Append(st.fixes, Fix("Error checking HTML structure"))]

\* except Exception: the original html_content and one entry that explains
Recover(st, html_content) ==
    [html |-> html_content, fixes |-> << Fix("Error checking HTML structure") >>]

(***************************************************************************)
(* Input documents of the repair                                           *)
(***************************************************************************)
\* a style block of an input: absent, empty, or CSS text with o "{" and c "}"
StyleSpecs(max) ==
    { [kind |-> "none", o |-> 0, c |-> 0], [kind |-> "empty", o |-> 0, c |-> 0] }
    \cup [kind : {"css"}, o : 0..max, c : 0..max]

StyleBlock(sp) ==
    IF sp.kind = "none" THEN <<>>
    ELSE IF sp.kind = "empty" THEN << "<style>", "</style>" >>
    ELSE << "<style>", "css" >> \o Repeat("{", sp.o) \o Repeat("}", sp.c) \o << "</style>" >>

DocShapes ==
    [ html : {"none", "lower", "upper"}, head : BOOLEAN, body : BOOLEAN, closed : BOOLEAN,
      link : {"none", "ss", "fa"}, style1 : StyleSpecs(MaxBraces),
      icon : BOOLEAN, style2 : StyleSpecs(MaxBodyBraces) ]

\* the text of the input document of shape p
Doc(p) ==
    LET up == p.html = "upper"
        headItems == (IF p.link = "ss" THEN <<"<link ss>">>
                      ELSE IF p.link = "fa" THEN <<"<link fa>">> ELSE <<>>)
                     \o StyleBlock(p.style1)
        bodyItems == << "<p>", "hi", "</p>" >>
                     \o (IF p.icon THEN << "<i fa>", "</i>" >> ELSE <<>>)
                     \o StyleBlock(p.style2)
        headPart == IF p.head
                    THEN <<IF up THEN "<HEAD>" ELSE "<head>">> \o headItems
                         \o <<IF up THEN "</HEAD>" ELSE "</head>">>
                    ELSE headItems
        bodyPart == IF p.body
                    THEN <<IF up THEN "<BODY>" ELSE "<body>">> \o bodyItems
                         \o (IF p.closed THEN <<IF up THEN "</BODY>" ELSE "</body>">> ELSE <<>>)
                    ELSE bodyItems
    IN  IF p.html = "none" THEN headPart \o bodyPart \o (IF p.closed THEN <<"NL">> ELSE <<>>)
        ELSE (IF p.closed THEN << "<!DOCTYPE html>", "NL" >> ELSE <<>>)
             \o <<IF up THEN "<HTML>" ELSE "<html>">> \o headPart \o bodyPart
             \o (IF p.closed THEN <<IF up THEN "</HTML>" ELSE "</html>">> ELSE <<>>)

(***************************************************************************)
(* chat_with_agent (src/app.py): values                                    *)
(***************************************************************************)
\* attempts of a retry loop
max_retries == 3

\* model calls counted per retry loop; the count stops at MaxCalls
MaxCalls == 5

\* repositories taken for enrichment
MaxEnriched == 5

Users == {"ada", "bob"}

\* user names as they may be written in a message
UrlNames == Users \cup {"Ada"}

\* str.lower() of a user name
Lower(name) == IF name = "Ada" THEN "ada" ELSE name

\* a user message: whether it has the word portfolio, and its github.com/
\* part: none, one without a user name after the slash, or a user name
Messages == [keyword : BOOLEAN, url : {"none", "nouser"} \cup UrlNames]

\* Python None for a text
NoneText == << "None" >>

\* re.search of a fenced block: the body between the first opening fence and
\* the next closing fence; NoneText when there is no such block
FenceBody(text, opens) ==
    LET starts == { i \in 1..Len(text) :
                      /\ text[i] \in opens
                      /\ \E j \in (i + 1)..Len(text) : text[j] = "[/fence]" }
    IN  IF starts = {} THEN NoneText
        ELSE LET i == CHOOSE x \in starts : \A y \in starts : x <= y
                 j == CHOOSE x \in (i + 1)..Len(text) :
                        /\ text[x] = "[/fence]"
                        /\ \A y \in (i + 1)..(x - 1) : text[y] # "[/fence]"
             IN  SubSeq(text, i + 1, j - 1)

HtmlFences == { "[fence html]", "[fence]" }

\* text.strip() starts with <!DOCTYPE html> or <html
StartsLikeHtml(text) ==
    \E i \in 1..Len(text) :
        /\ text[i] \in { "<!DOCTYPE html>", "<html>", "<html lang>" }
        /\ \A j \in 1..(i - 1) : text[j] = "NL"

\* '<body' in text
ContainsBody(text) == \E i \in 1..Len(text) : text[i] = "<body>"

\* the check of an unfenced generation response
LooksLikeHtml(text) == StartsLikeHtml(text) \/ ContainsBody(text)

RECURSIVE ReplaceTok(_, _, _)
\* text.replace(tok, repl)
ReplaceTok(text, tok, repl) ==
    IF text = <<>> THEN <<>>
    ELSE (IF Head(text) = tok THEN repl ELSE <<Head(text)>>) \o ReplaceTok(Tail(text), tok, repl)

HasAny(text, toks) == \E i \in 1..Len(text) : text[i] \in toks

\* no <script: the theme script is put before each </body>
AddScript(html) ==
    IF ~HasAny(html, {"<script>"})
    THEN ReplaceTok(html, "</body>", << "NL", "<script>", "js", "</script>", "NL", "</body>" >>)
    ELSE html

\* no font-awesome or fontawesome: the link is put before each </head>
AddFontAwesome(html) ==
    IF ~HasAny(html, {"<link fa>", "<link fa/>", "<link kit>", "<link kit/>"})
    THEN ReplaceTok(html, "</head>", << "NL", "<link fa>", "NL", "</head>" >>)
    ELSE html

\* the meta tags put after each <head> without a look at what is there
AddMetaAlways(html) ==
    ReplaceTok(html, "<head>", << "<head>", "NL", "<meta desc>", "NL", "<meta kw>" >>)

\* no description meta: description and keywords go after each <head>
AddMeta(html) ==
    IF ~HasAny(html, {"<meta desc>", "<meta desc/>"})
    THEN ReplaceTok(html, "<head>", << "<head>", "NL", "<meta desc>", "NL", "<meta kw>" >>)
    ELSE html

NormalizeV(html) == AddMeta(Strict(AddFontAwesome, Strict(AddScript, html)))

\* the three steps after the repair call
Normalize(html) == Strict(NormalizeV, html)

\* the static template used when website generation is exhausted
FallbackTemplate ==
    << "<!DOCTYPE html>", "NL", "<html lang>", "NL", "<head>", "NL", "<meta charset>", "NL",
       "<meta viewport>", "NL", "<title>", "txt", "</title>", "NL",
       "<style>", "NL", "css", "{", "css", "}", "NL", "css", "{", "css", "}", "NL",
       "css", "{", "css", "}", "NL", "css", "{", "css", "}", "NL", "</style>", "NL",
       "</head>", "NL", "<body>", "NL", "<div>", "hi", "</div>", "NL",
       "<p>", "txt", "</p>", "NL", "</body>", "NL", "</html>" >>

\* documents and other texts a model response may carry
PlainDoc ==
    << "<!DOCTYPE html>", "NL", "<html>", "<head>", "<style>", "css", "</style>", "</head>",
       "<body>", "<p>", "hi", "</p>", "</body>", "</html>" >>

FullDoc ==
    << "<!DOCTYPE html>", "NL", "<html>", "<head>", "<meta desc>", "<link fa>", "<style>", "css",
       "</style>", "</head>", "<body>", "<i fa>", "</i>", "<script>", "js", "</script>",
       "</body>", "</html>" >>

UnclosedDoc == << "<html>", "<head>", "<style>", "css", "</style>", "<body>", "<p>", "hi" >>

UpperDoc ==
    << "<HTML>", "<HEAD>", "<style>", "css", "</style>", "</HEAD>", "<BODY>", "hi", "</BODY>", "</HTML>" >>

BodyOnly == << "<body>", "<p>", "hi", "</p>", "</body>" >>

Prose == << "txt" >>

Fenced(open, body) == << "txt", "NL", open >> \o body \o << "[/fence]", "NL", "txt" >>

\* what the model may answer to the generation and to the repair request
ModelTexts ==
    { PlainDoc, FullDoc, UnclosedDoc, UpperDoc, BodyOnly, Prose,
      Fenced("[fence html]", PlainDoc), Fenced("[fence]", UpperDoc),
      Fenced("[fence html]", Prose), Fenced("[fence]", <<>>), Fenced("[fence json]", Prose) }

\* a repository record of the profile payload; name "" stands for a record
\* without the name key, language "" and description "" for absent or null
RepoX == [name |-> "x", language |-> "Rust", stars |-> 10, description |-> ""]

RepoY == [name |-> "y", language |-> "Go", stars |-> 0, description |-> "d"]

RepoAnon == [name |-> "", language |-> "Go", stars |-> 10, description |-> ""]

\* an entry of the repos list that is JSON null, not an object
RepoNull == [name |-> "null", language |-> "", stars |-> 0, description |-> ""]

IsObject(repo) == repo # RepoNull

RepoLists == { <<>>, <<RepoX>>, <<RepoY, RepoX>>, <<RepoAnon>>, <<RepoX, RepoNull>> }

\* the stars of a record whose star fields are null: the sort key
\* x.get("stargazers_count", 0) or x.get("stars", 0) is then None
NullStars == -1

Repo(name, language, stars, description) ==
    [name |-> name, language |-> language, stars |-> stars, description |-> description]

\* the repository lists given to the enrichment: the lists above; six
\* repositories with tied stars and one language; five with two languages
\* and ties, one without language and description; stars that rise, with ties;
\* a record with null stars; a record without name between two with names;
\* seven repositories, the second with null stars, the last five with the
\* most stars
EnrichLists ==
    RepoLists \cup
    { << Repo("a", "Go", 3, "d"), Repo("b", "Go", 3, "d"), Repo("c", "Go", 3, "d"),
         Repo("d", "Go", 3, "d"), Repo("e", "Go", 3, "d"), Repo("f", "Go", 3, "d") >>,
      << Repo("a", "Rust", 5, "d"), Repo("b", "Go", 5, "d"), Repo("c", "Go", 2, "d"),
         Repo("d", "", 2, ""), Repo("e", "Rust", 1, "d") >>,
      << Repo("a", "Rust", 1, "d"), Repo("b", "Go", 7, "d"), Repo("c", "Rust", 1, "d"),
         Repo("d", "Go", 7, "") >>,
      << Repo("a", "Rust", 1, "d"), Repo("b", "Go", NullStars, "d"), Repo("c", "Rust", 7, "d") >>,
      << RepoX, RepoAnon, RepoY >>,
      << Repo("a", "Rust", 1, "d"), Repo("b", "Go", NullStars, "d"), Repo("c", "Go", 7, "d"),
         Repo("d", "Go", 7, "d"), Repo("e", "Go", 7, "d"), Repo("f", "Go", 7, "d"),
         Repo("g", "Go", 7, "d") >> }

\* profile_data: kind None, "empty" ({}), "list" (a JSON value that is not an
\* object), "dict"; profile is "dict", "null" (present, not an object) or
\* "absent"; repos_ok is FALSE when repos is not a list of objects
Payload(kind, profile, repos_ok, repos) ==
    [kind |-> kind, profile |-> profile, repos_ok |-> repos_ok, repos |-> repos, skills |-> <<>>]

NoneData == Payload("None", "absent", TRUE, <<>>)

\* the basic profile built when no profile data could be extracted
BasicProfile == Payload("dict", "dict", TRUE, <<>>)

ProfilePayloads ==
    { Payload("empty", "absent", TRUE, <<>>), Payload("list", "absent", TRUE, <<>>),
      Payload("dict", "dict", FALSE, <<>>), Payload("dict", "null", TRUE, <<>>) }
    \cup { Payload("dict", "dict", TRUE, r) : r \in RepoLists }

\* the answer to the profile request: the call raises, or returns text with
\* no fenced block and no brace span ("nothing"), with a span that is not
\* JSON ("badjson"), with JSON null ("null"), or with a payload
ProfileResponses ==
    { [how |-> h, data |-> NoneData] : h \in {"raise", "nothing", "badjson", "null"} }
    \cup { [how |-> "json", data |-> d] : d \in ProfilePayloads }

\* the answer to the structure request: the call raises, or the text has no
\* language indicator (""), or the indicator names none or a language
StructResponses == { "raise", "", "none", "Go" }

\* the answer to the README request: the call raises, the text has no
\* paragraph after a heading, a short one, or one longer than 150 characters
ReadmeResponses == { "raise", "nomatch", "short", "long" }

\* the answer to the generation and to the repair request
TextResponses == { [how |-> "raise", text |-> <<>>] } \cup { [how |-> "text", text |-> t] : t \in ModelTexts }

\* all_languages[lang] = all_languages.get(lang, 0) + 1, on a dict kept as
\* the sequence of its items in insertion order
CountLanguage(langs, lang) ==
    IF \E i \in 1..Len(langs) : langs[i].name = lang
    THEN [i \in 1..Len(langs) |->
            IF langs[i].name = lang THEN [name |-> lang, count |-> langs[i].count + 1] ELSE langs[i]]
    ELSE Append(langs, [name |-> lang, count |-> 1])

RECURSIVE InsertDesc(_, _)
\* x put into a sequence sorted by descending key, after the items whose key
\* is not smaller
InsertDesc(sorted, x) ==
    IF sorted = <<>> THEN <<x>>
    ELSE IF sorted[1].key >= x.key THEN <<sorted[1]>> \o InsertDesc(Tail(sorted), x)
    ELSE <<x>> \o sorted

RECURSIVE SortDescV(_)
SortDescV(items) ==
    IF items = <<>> THEN <<>>
    ELSE InsertDesc(SortDescV(SubSeq(items, 1, Len(items) - 1)), items[Len(items)])

\* sorted(items, reverse=True) on [key, val] pairs: descending keys, the
\* order of equal keys kept
SortDesc(items) == Strict(SortDescV, items)

\* sorted(repos, key=stars, reverse=True); the key of an entry that is no
\* object raises, and so does the comparison of a key that is None with
\* another key; the order is then kept as it was
SortByStars(repos) ==
    LET s == SortDesc([i \in 1..Len(repos) |-> [key |-> repos[i].stars, val |-> repos[i]]])
        raises == \/ \E i \in 1..Len(repos) : ~IsObject(repos[i])
                  \/ Len(repos) >= 2 /\ \E i \in 1..Len(repos) : repos[i].stars = NullStars
    IN  IF raises THEN repos ELSE [i \in 1..Len(s) |-> s[i].val]

Min(a, b) == IF a < b THEN a ELSE b

\* skills with ten points for every occurrence
SkillsOfTenEach(langs) ==
    LET s == SortDesc([i \in 1..Len(langs) |-> [key |-> langs[i].count, val |-> langs[i]]])
    IN  [i \in 1..Len(s) |-> [name |-> s[i].val.name, level |-> Min(s[i].val.count * 10, 100)]]

\* skills in the order in which the languages were first counted
SkillsOfUnsorted(langs) ==
    [i \in 1..Len(langs) |-> [name |-> langs[i].name, level |-> Min(langs[i].count * 20, 100)]]

\* skills from the language counts
SkillsOf(langs) ==
    LET s == SortDesc([i \in 1..Len(langs) |-> [key |-> langs[i].count, val |-> langs[i]]])
    IN  [i \in 1..Len(s) |-> [name |-> s[i].val.name, level |-> Min(s[i].val.count * 20, 100)]]

\* the recorded languages with the empty one among them
DefaultLanguagesAll(repos) == { repos[i].language : i \in 1..Len(repos) }

\* the set of recorded languages of the repositories
DefaultLanguages(repos) == { repos[i].language : i \in 1..Len(repos) } \ {""}

\* the sequences that list every member of a set once
Orderings(S) == { q \in [1..Cardinality(S) -> S] : \A x \in S : \E i \in 1..Cardinality(S) : q[i] = x }

\* the enhanced record: the repository with detailed_description (the
\* description found, else one synthesized from language and stars) and the
\* languages seen so far
Enhanced(repo, description, langs) ==
    [name |-> repo.name, language |-> repo.language, stars |-> repo.stars,
     description |-> repo.description,
     detailed_description |-> IF description # "" THEN description ELSE "synthesized",
     languages |-> [i \in 1..Len(langs) |-> langs[i].name]]

\* a status text: history[-1][1]
Status(text, n) == [text |-> text, n |-> n]

(***************************************************************************)
(* generate_portfolio_website (src/main.py)                                *)
(***************************************************************************)
\* repositories shown as cards
MaxCards == 6

\* the replacement fields of the f-string that builds the page (html =
\* f"""..."""), with whether the text between the braces is an expression;
\* the JavaScript of the script block is written with single braces, so the
\* bodies of its functions are read as replacement fields
\* uses is the name a field takes from the module, "" when it reads local
\* variables only
TemplateFields ==
    { [field |-> "name", expression |-> TRUE, uses |-> ""],
      [field |-> "css", expression |-> TRUE, uses |-> ""],
      [field |-> "avatar_url", expression |-> TRUE, uses |-> ""],
      [field |-> "bio", expression |-> TRUE, uses |-> ""],
      [field |-> "contact items", expression |-> TRUE, uses |-> ""],
      [field |-> "skills_html", expression |-> TRUE, uses |-> ""],
      [field |-> "repos_html", expression |-> TRUE, uses |-> ""],
      [field |-> "datetime.datetime.now().year", expression |-> TRUE, uses |-> "datetime"],
      [field |-> "body of toggleDarkMode", expression |-> FALSE, uses |-> ""],
      [field |-> "body of the DOMContentLoaded handler", expression |-> FALSE, uses |-> ""] }

\* the f-string is valid Python only if every replacement field holds an
\* expression; otherwise the module raises SyntaxError when it is loaded
TemplateCompiles == \A f \in TemplateFields : f.expression

\* the names bound by the import statements of main.py
ModuleNames ==
    { "asyncio", "os", "re", "dataclass", "Any", "List", "Dict", "Optional", "logfire", "debug",
      "AsyncClient", "Agent", "ModelRetry", "RunContext", "load_dotenv", "html", "BeautifulSoup" }

\* evaluating the f-string raises NameError for a name that is not bound
TemplateBound == \A f \in TemplateFields : f.uses = "" \/ f.uses \in ModuleNames

\* None as the value of a field
Null == "None"

\* a value that counts as false in a condition
Falsy(v) == v \in { "", Null }

\* profile.get(key, default) on the profile of the payload
ProfileField(profile_data, key, default) ==
    IF "fields" \in DOMAIN profile_data /\ key \in DOMAIN profile_data.fields
    THEN profile_data.fields[key]
    ELSE default

RECURSIVE CountLanguages(_, _)
\* languages[lang] = languages.get(lang, 0) + 1 for every repository with a
\* language
CountLanguages(repos, langs) ==
    IF repos = <<>> THEN langs
    ELSE CountLanguages(Tail(repos),
                        IF Head(repos).language # "" THEN CountLanguage(langs, Head(repos).language)
                        ELSE langs)

\* the skills given with the payload, else derived from the repositories
RenderSkills(profile_data, repos) ==
    IF profile_data.skills # <<>> THEN profile_data.skills
    ELSE SkillsOf(CountLanguages(repos, <<>>))

\* one skill item: the name and the width of its progress bar in percent
SkillItem(skill) == [name |-> skill.name, width |-> skill.level]

\* one repository card
RepoCard(repo) ==
    [name |-> IF repo.name = "" THEN "Repository" ELSE repo.name,
     description |-> IF repo.description # "" THEN repo.description
                     ELSE IF "detailed_description" \in DOMAIN repo THEN repo.detailed_description
                     ELSE "",
     detailed_desc |-> IF "detailed_description" \notin DOMAIN repo THEN ""
                       ELSE IF repo.detailed_description =
                                 (IF repo.description # "" THEN repo.description
                                  ELSE repo.detailed_description)
                            THEN ""
                       ELSE repo.detailed_description,
     language |-> repo.language,
     stars |-> repo.stars]

\* for repo in repos[:6]
RepoCards(repos) == [i \in 1..Min(MaxCards, Len(repos)) |-> RepoCard(repos[i])]

\* the blocks of contact-info: location, blog and twitter when set, then the
\* GitHub link
ContactItems(profile_data) ==
    LET location == ProfileField(profile_data, "location", "")
        blog == ProfileField(profile_data, "blog", "")
        twitter == ProfileField(profile_data, "twitter_username", "")
    IN  (IF Falsy(location) THEN <<>> ELSE << [block |-> "location", text |-> location] >>)
        \o (IF Falsy(blog) THEN <<>> ELSE << [block |-> "blog", text |-> blog] >>)
        \o (IF Falsy(twitter) THEN <<>> ELSE << [block |-> "twitter", text |-> twitter] >>)
        \o << [block |-> "github", text |-> ProfileField(profile_data, "name", "GitHub User")] >>

\* the links of social-links: GitHub, then twitter and blog when set
FooterLinks(profile_data) ==
    LET blog == ProfileField(profile_data, "blog", "")
        twitter == ProfileField(profile_data, "twitter_username", "")
    IN  << [block |-> "github", text |-> ProfileField(profile_data, "name", "GitHub User")] >>
        \o (IF Falsy(twitter) THEN <<>> ELSE << [block |-> "twitter", text |-> twitter] >>)
        \o (IF Falsy(blog) THEN <<>> ELSE << [block |-> "blog", text |-> blog] >>)

\* {items if items else '<p>placeholder</p>'}: what a grid holds
Grid(items, placeholder) ==
    IF items = <<>> THEN << [placeholder |-> placeholder] >>
    ELSE [i \in 1..Len(items) |-> [item |-> items[i]]]

NoPage(why) ==
    [kind |-> why, skills_html |-> <<>>, repos_html |-> <<>>, contact |-> <<>>, footer |-> <<>>,
     skills_grid |-> <<>>, repos_grid |-> <<>>]

\* generate_portfolio_website(profile_data): the page, as its skill items
\* and repository cards inside the template, or the exception
generate_portfolio_website(profile_data) ==
    IF ~TemplateCompiles THEN NoPage("SyntaxError")
    ELSE IF \/ profile_data.kind # "dict" \/ profile_data.profile = "null"
            \/ ~profile_data.repos_ok
            \/ \E i \in 1..Len(profile_data.repos) : ~IsObject(profile_data.repos[i])
    THEN NoPage("AttributeError")
    ELSE IF ~TemplateBound THEN NoPage("NameError")
    ELSE LET repos == SortByStars(profile_data.repos)
             skills_html == [i \in 1..Len(RenderSkills(profile_data, repos)) |->
                               SkillItem(RenderSkills(profile_data, repos)[i])]
         IN  [kind |-> "html",
              skills_html |-> skills_html,
              repos_html |-> RepoCards(repos),
              contact |-> ContactItems(profile_data),
              footer |-> FooterLinks(profile_data),
              skills_grid |-> Grid(skills_html, "No skills data available"),
              repos_grid |-> Grid(RepoCards(repos), "No repositories available")]

(***************************************************************************)
(* Profile payloads given to the renderer                                  *)
(***************************************************************************)
\* payloads have 0..MaxRepos repositories
MaxRepos == 7

RepoNames == << "a", "b", "c", "d", "e", "f", "g", "h", "i", "j" >>

\* the i-th repository of a payload whose stars rise, fall or are all equal
RepoAt(i, order) ==
    [name |-> RepoNames[i],
     language |-> << "Rust", "Go", "" >>[(i % 3) + 1],
     stars |-> CASE order = "asc" -> i [] order = "desc" -> 20 - i [] OTHER -> 0,
     description |-> IF i % 2 = 0 THEN "d" ELSE ""]

\* the i-th repository as the enrichment leaves it: the detailed description
\* is the description itself (i = 2), another text (i = 4, 6), or the only
\* text of a repository without description (odd i)
EnhancedAt(i) ==
    Enhanced(RepoAt(i, "tied"), IF i % 6 = 2 THEN RepoAt(i, "tied").description ELSE "long", <<>>)

\* profiles whose optional fields are all set, all empty, or left out
ProfileFieldSets ==
    { [name |-> "ada", bio |-> "bio", avatar_url |-> "avatar", location |-> "London",
       blog |-> "blog.example", twitter_username |-> "adal"],
      [name |-> "ada", bio |-> "", avatar_url |-> "", location |-> "", blog |-> "",
       twitter_username |-> ""],
      [name |-> "ada", location |-> "London"] }

RenderInputs ==
    { [kind |-> "dict", profile |-> pr, repos_ok |-> TRUE,
       repos |-> [i \in 1..n |-> RepoAt(i, order)], skills |-> sk] :
         n \in 0..MaxRepos, order \in {"asc", "desc", "tied"},
         pr \in {"dict", "absent", "null"},
         sk \in { <<>>, << [name |-> "Go", level |-> 40] >> } }
    \cup
    { [kind |-> "dict", profile |-> "dict", repos_ok |-> TRUE,
       repos |-> [i \in 1..n |-> EnhancedAt(i)], skills |-> <<>>, fields |-> f] :
         n \in 0..MaxRepos, f \in ProfileFieldSets }

(***************************************************************************)
(* fetch_github_profile (src/main.py)                                      *)
(***************************************************************************)
\* a key that the remote answer does not have
Absent == "absent"

\* d.get(key, default): the value of a key that is present, None included
Get(d, key, default) == IF d[key] = Absent THEN default ELSE d[key]

\* the payload built from the answers of the two requests; every repository
\* of the answer has its star count; following and public_repos are read as
\* followers is
fetch_github_profile(user, remote) ==
    [kind |-> "dict", profile |-> "dict", repos_ok |-> TRUE,
     repos |-> [i \in 1..Len(remote.repos) |->
                  Repo(Get(remote.repos[i], "name", ""), Get(remote.repos[i], "language", ""),
                       remote.repos[i].stargazers_count,
                       Get(remote.repos[i], "description", ""))],
     skills |-> <<>>,
     fields |-> [name |-> Get(remote.profile, "name", user),
                 bio |-> Get(remote.profile, "bio", ""),
                 avatar_url |-> Get(remote.profile, "avatar_url", ""),
                 location |-> Get(remote.profile, "location", ""),
                 blog |-> Get(remote.profile, "blog", ""),
                 twitter |-> Get(remote.profile, "twitter_username", ""),
                 followers |-> Get(remote.profile, "followers", "0")]]

\* the user whose profile is fetched
FetchUser == "ada"

\* answers of the profile request: each optional field is missing, null or
\* set; the counts are written as texts
RemoteProfiles ==
    [name : {Absent, Null, "Ada L"}, bio : {Absent, Null, "bio"}, avatar_url : {Absent, "avatar"},
     location : {Absent, Null, "London"}, blog : {Absent, "", "blog.example"},
     twitter_username : {Absent, Null, "adal"}, followers : {Absent, "3"}]

\* answers of the repository request
RemoteRepos ==
    { <<>>,
      << [name |-> "a", language |-> "Go", stargazers_count |-> 2, description |-> "d"],
         [name |-> "b", language |-> Absent, stargazers_count |-> 0, description |-> Absent] >> }

RemoteAnswers == [profile : RemoteProfiles, repos : RemoteRepos]

(***************************************************************************)
(* State                                                                   *)
(***************************************************************************)
VARIABLES
    pc,             \* where the turn is: idle, started, the loop heads, the awaited calls, done
    message,        \* the user message of the turn
    username,       \* the user name taken from the message
    status,         \* history[-1][1]
    emitted,        \* the status texts yielded so far in this turn
    retry_count,    \* retry_count of the current retry loop
    calls,          \* model calls issued by the current retry loop (stops at MaxCalls)
    attempts,       \* how each attempt of the current retry loop ended: raised, unusable, rejected, empty, ok
    profile_data,   \* profile_data
    repos,          \* repos (sorted)
    idx,            \* position of the enrichment loop in repos[:5], from 1
    enhanced_repos, \* enhanced_repos
    all_languages,  \* all_languages, as its items in insertion order
    html_content,   \* html_content
    cs,             \* conversation_state: generated_html, current_username, portfolio_path
    files,          \* generated_portfolios: user name -> text of <user>_portfolio.html
    result,         \* the html and path of the final yield
    rp_pc,          \* repair harness: "input", "once" (repaired), "twice" (repaired again), "failed"
    rp_partial,     \* soup, fixed_html and fixes_made at the statement that failed
    rp_input,       \* the html_content given to complete_html_structure
    rp_first,       \* result of the first run: [html, fixes]
    rp_second,      \* result of the run on the first run's html
    nz_pc,          \* normalization harness: "input", "once", "twice"
    nz_input,       \* the html_content given to the normalization
    nz_first,       \* the normalized html_content
    nz_second,      \* the html_content normalized again
    rd_pc,          \* renderer harness: "remote" (before the fetch), "input", "called"
    rd_input,       \* the profile_data given to generate_portfolio_website
    rd_output,      \* what the call gave
    ov_pc,          \* overlapping turns: where each turn is
    ov_user,        \* the user name of each turn
    ov_html,        \* html_content of each turn
    ov_result       \* the html and path of the final yield of each turn

turn_vars ==
    << pc, message, username, status, emitted, retry_count, calls, attempts, profile_data,
       repos, idx, enhanced_repos, all_languages, html_content, cs, files, result >>

rp_vars == << rp_pc, rp_partial, rp_input, rp_first, rp_second >>

NoPartial == RepairState(<<>>, <<>>, <<>>)

nz_vars == << nz_pc, nz_input, nz_first, nz_second >>

rd_vars == << rd_pc, rd_input, rd_output >>

ov_vars == << ov_pc, ov_user, ov_html, ov_result >>

call_vars == << rp_vars, nz_vars, rd_vars, ov_vars >>

\* the variables of one turn that are not conversation_state or the files
local_vars ==
    << pc, message, username, status, emitted, retry_count, calls, attempts, profile_data,
       repos, idx, enhanced_repos, all_languages, html_content, result >>

vars == << turn_vars, call_vars >>

NoResult == [html |-> <<>>, fixes |-> <<>>]

NoYield == [html |-> NoneText, path |-> ""]

\* conversation_state after construction
FreshState == [generated_html |-> NoneText, current_username |-> "", portfolio_path |-> ""]

\* conversation_state after an earlier turn that generated bob's portfolio
EarlierState == [generated_html |-> Normalize(PlainDoc), current_username |-> "bob", portfolio_path |-> "bob"]

TurnIdle ==
    /\ pc = "idle"
    /\ message = [keyword |-> FALSE, url |-> "none"]
    /\ username = ""
    /\ status = Status("", 0)
    /\ emitted = <<>>
    /\ retry_count = 0
    /\ calls = 0
    /\ attempts = <<>>
    /\ profile_data = NoneData
    /\ repos = <<>>
    /\ idx = 0
    /\ enhanced_repos = <<>>
    /\ all_languages = <<>>
    /\ html_content = NoneText
    /\ result = NoYield

RepairIdle ==
    /\ rp_pc = "input"
    /\ rp_partial = NoPartial
    /\ rp_input = <<>>
    /\ rp_first = NoResult
    /\ rp_second = NoResult

NormalizeIdle ==
    /\ nz_pc = "input"
    /\ nz_input = <<>>
    /\ nz_first = <<>>
    /\ nz_second = <<>>

RenderIdle ==
    /\ rd_pc = "input"
    /\ rd_input = NoneData
    /\ rd_output = [kind |-> "none"]

\* the turns that may overlap
Turns == {1, 2}

OverlapIdle ==
    /\ ov_pc = [t \in Turns |-> "idle"]
    /\ ov_user = [t \in Turns |-> ""]
    /\ ov_html = [t \in Turns |-> NoneText]
    /\ ov_result = [t \in Turns |-> NoYield]

Init ==
    /\ TurnIdle
    /\ \/ cs = FreshState /\ files = [u \in Users |-> NoneText]
       \/ cs = EarlierState /\ files = [u \in Users |-> IF u = "bob" THEN Normalize(PlainDoc) ELSE NoneText]
    /\ RepairIdle
    /\ NormalizeIdle
    /\ RenderIdle
    /\ OverlapIdle

(***************************************************************************)
(* chat_with_agent (src/app.py): steps                                     *)
(***************************************************************************)
\* x or None, for a text
OrNone(text) == IF text = <<>> THEN NoneText ELSE text

\* one more call of the current loop
Counted(n) == IF n < MaxCalls THEN n + 1 ELSE n

\* one more attempt outcome of the current loop
Logged(log, how) == IF Len(log) < MaxCalls THEN Append(log, how) ELSE log

\* except Exception as e (line 413): the error status is shown, then the
\* final yield shows it again with whatever conversation_state holds
ErrorExit(seen, state) ==
    /\ status' = Status("Error generating portfolio", 0)
    /\ emitted' = seen \o << Status("Error generating portfolio", 0),
                              Status("Error generating portfolio", 0) >>
    /\ result' = [html |-> OrNone(state.generated_html), path |-> state.portfolio_path]
    /\ pc' = "done"

\* the message is added to the history with "Thinking..." and shown
Submit(m) ==
    /\ pc = "idle"
    /\ message' = m
    /\ status' = Status("Thinking...", 0)
    /\ emitted' = << Status("Thinking...", 0) >>
    /\ pc' = "started"
    /\ UNCHANGED << username, retry_count, calls, attempts, profile_data, repos, idx,
                    enhanced_repos, all_languages, html_content, cs, files, result, call_vars >>

\* the intent check; a portfolio request names the user and starts the
\* profile retry loop, any other message is sent to the agent as it is
DetectIntent ==
    /\ pc = "started"
    /\ IF message.keyword /\ message.url \in UrlNames
       THEN /\ username' = Lower(message.url)
            /\ cs' = [cs EXCEPT !.current_username = Lower(message.url)]
            /\ status' = Status("Fetching GitHub profile data", 0)
            /\ emitted' = emitted \o << Status("Generating portfolio website for GitHub user", 0),
                                        Status("Fetching GitHub profile data", 0) >>
            /\ pc' = "profile_loop"
            /\ calls' = 0
       ELSE /\ pc' = "general_await"
            /\ calls' = 1
            /\ UNCHANGED << username, cs, status, emitted >>
    /\ retry_count' = 0
    /\ attempts' = <<>>
    /\ profile_data' = NoneData
    /\ UNCHANGED << message, repos, idx, enhanced_repos, all_languages, html_content, files,
                    result, call_vars >>

\* while retry_count < max_retries and profile_data is None: the next
\* profile request is sent; after the loop a basic profile replaces no data
ProfileLoop ==
    /\ pc = "profile_loop"
    /\ IF retry_count < max_retries /\ profile_data.kind = "None"
       THEN /\ calls' = Counted(calls)
            /\ pc' = "profile_await"
            /\ UNCHANGED profile_data
       ELSE /\ profile_data' = IF profile_data.kind \in {"None", "empty"} THEN BasicProfile
                                ELSE profile_data
            /\ pc' = "enrich_start"
            /\ UNCHANGED calls
    /\ UNCHANGED << message, username, status, emitted, retry_count, attempts, repos, idx,
                    enhanced_repos, all_languages, html_content, cs, files, result, call_vars >>

\* the answer to the profile request and the extraction of its JSON
ProfileReturn(resp) ==
    /\ pc = "profile_await"
    /\ pc' = "profile_loop"
    /\ IF resp.how \in {"raise", "badjson"}
       THEN /\ retry_count' = retry_count + 1
            /\ status' = IF retry_count + 1 < max_retries
                          THEN Status("Retrying profile fetch", retry_count + 1)
                          ELSE Status("Error fetching profile after 3 attempts", 0)
            /\ emitted' = Append(emitted, status')
            /\ attempts' = Logged(attempts, "raised")
            /\ UNCHANGED profile_data
       ELSE /\ profile_data' = resp.data
            /\ attempts' = Logged(attempts, CASE resp.how # "json" -> "unusable"
                                               [] resp.data.kind = "empty" -> "empty"
                                               [] OTHER -> "ok")
            /\ UNCHANGED << retry_count, status, emitted >>
    /\ UNCHANGED << message, username, calls, repos, idx, enhanced_repos, all_languages,
                    html_content, cs, files, result, call_vars >>

\* step 2 begins: the repositories are read from the profile data and sorted
EnrichStart ==
    /\ pc = "enrich_start"
    /\ IF profile_data.kind = "list" \/ ~profile_data.repos_ok
       THEN /\ ErrorExit(Append(emitted, Status("Fetching repository details", 0)), cs)
            /\ UNCHANGED << repos, idx >>
       ELSE /\ status' = Status("Fetching repository details", 0)
            /\ emitted' = Append(emitted, status')
            /\ repos' = SortByStars(profile_data.repos)
            /\ idx' = 1
            /\ pc' = "enrich_loop"
            /\ UNCHANGED result
    /\ calls' = 0
    /\ attempts' = <<>>
    /\ enhanced_repos' = <<>>
    /\ all_languages' = <<>>
    /\ UNCHANGED << message, username, retry_count, profile_data, html_content, cs, files, call_vars >>

\* for i, repo in enumerate(repos[:5]): a named repository gets its
\* structure request; after the loop the skills are derived and step 3 begins
EnrichLoop ==
    /\ pc = "enrich_loop"
    /\ IF idx <= Min(MaxEnriched, Len(repos)) /\ ~IsObject(repos[idx])
       THEN /\ ErrorExit(emitted, cs)
            /\ UNCHANGED << profile_data, retry_count, html_content, idx >>
       ELSE IF idx <= Min(MaxEnriched, Len(repos))
       THEN /\ IF repos[idx].name # "" THEN pc' = "struct_await" /\ idx' = idx
               ELSE pc' = "enrich_loop" /\ idx' = idx + 1
            /\ UNCHANGED << profile_data, status, emitted, retry_count, html_content, result >>
       ELSE /\ \E fallback \in Orderings(DefaultLanguages(repos)) :
                 profile_data' =
                    [profile_data EXCEPT
                       !.repos = IF enhanced_repos # <<>> THEN enhanced_repos ELSE @,
                       !.skills = IF all_languages # <<>> THEN SkillsOf(all_languages)
                                  ELSE [i \in 1..Len(fallback) |-> [name |-> fallback[i], level |-> 80]]]
            /\ status' = Status("Generating enhanced portfolio website", 0)
            /\ emitted' = Append(emitted, status')
            /\ retry_count' = 0
            /\ html_content' = NoneText
            /\ pc' = "gen_loop"
            /\ idx' = idx
            /\ UNCHANGED result
    /\ UNCHANGED << message, username, calls, attempts, repos, enhanced_repos, all_languages,
                    cs, files, call_vars >>

\* a count of the indicator and of the recorded language as well
CountForBoth(langs, repo, indicator) ==
    LET found == IF indicator \notin {"", "none"} THEN CountLanguage(langs, indicator) ELSE langs
    IN  IF repo.language # "" THEN CountLanguage(found, repo.language) ELSE found

\* the language counted for a repository: the indicator of the structure
\* text, else the recorded language, else nothing
CountFor(langs, repo, indicator) ==
    IF indicator \notin {"", "none"} THEN CountLanguage(langs, indicator)
    ELSE IF repo.language # "" THEN CountLanguage(langs, repo.language)
    ELSE langs

\* the answer to the structure request of repos[idx]
StructReturn(resp) ==
    /\ pc = "struct_await"
    /\ IF resp = "raise"
       THEN /\ enhanced_repos' = Append(enhanced_repos, repos[idx])
            /\ idx' = idx + 1
            /\ pc' = "enrich_loop"
            /\ UNCHANGED all_languages
       ELSE /\ all_languages' = CountFor(all_languages, repos[idx], resp)
            /\ IF repos[idx].description = ""
               THEN /\ pc' = "readme_await"
                    /\ UNCHANGED << enhanced_repos, idx >>
               ELSE /\ enhanced_repos' =
                         Append(enhanced_repos,
                                Enhanced(repos[idx], repos[idx].description, all_languages'))
                    /\ idx' = idx + 1
                    /\ pc' = "enrich_loop"
    /\ UNCHANGED << message, username, status, emitted, retry_count, calls, attempts,
                    profile_data, repos, html_content, cs, files, result, call_vars >>

\* the description taken from the README text
ReadmeDescription(resp) ==
    CASE resp = "short" -> "readme paragraph"
      [] resp = "long" -> "readme paragraph cut to 147 characters..."
      [] OTHER -> ""

\* the answer to the README request of repos[idx]
ReadmeReturn(resp) ==
    /\ pc = "readme_await"
    /\ enhanced_repos' =
          Append(enhanced_repos, Enhanced(repos[idx], ReadmeDescription(resp), all_languages))
    /\ idx' = idx + 1
    /\ pc' = "enrich_loop"
    /\ UNCHANGED << message, username, status, emitted, retry_count, calls, attempts,
                    profile_data, repos, all_languages, html_content, cs, files, result, call_vars >>

\* while retry_count < max_retries and html_content is None: the next
\* generation request is sent
GenLoop ==
    /\ pc = "gen_loop"
    /\ IF retry_count < max_retries /\ html_content = NoneText
       THEN calls' = Counted(calls) /\ pc' = "gen_await"
       ELSE calls' = calls /\ pc' = "repair_start"
    /\ UNCHANGED << message, username, status, emitted, retry_count, attempts, profile_data,
                    repos, idx, enhanced_repos, all_languages, html_content, cs, files, result,
                    call_vars >>

\* the except branch of the generation loop: the attempt is counted; below
\* the limit a retry is announced, at the limit the template is used, which
\* reads the bio of the profile
GenFailed(how, kept) ==
    /\ retry_count' = retry_count + 1
    /\ attempts' = Logged(attempts, how)
    /\ IF retry_count + 1 < max_retries
       THEN /\ status' = Status("Retrying website generation", retry_count + 1)
            /\ emitted' = Append(emitted, status')
            /\ html_content' = kept
            /\ pc' = "gen_loop"
            /\ UNCHANGED result
       ELSE IF profile_data.profile = "null"
            THEN /\ ErrorExit(Append(emitted, Status("Error generating website after 3 attempts", 0)), cs)
                 /\ html_content' = kept
            ELSE /\ status' = Status("Error generating website after 3 attempts", 0)
                 /\ emitted' = Append(emitted, status')
                 /\ html_content' = FallbackTemplate
                 /\ pc' = "gen_loop"
                 /\ UNCHANGED result

\* the answer to the generation request and the extraction of its HTML
GenReturn(resp) ==
    /\ pc = "gen_await"
    /\ IF resp.how = "raise" THEN GenFailed("raised", html_content)
       ELSE IF FenceBody(resp.text, HtmlFences) # NoneText
       THEN /\ html_content' = FenceBody(resp.text, HtmlFences)
            /\ attempts' = Logged(attempts, "ok")
            /\ pc' = "gen_loop"
            /\ UNCHANGED << retry_count, status, emitted, result >>
       ELSE IF LooksLikeHtml(resp.text)
       THEN /\ html_content' = resp.text
            /\ attempts' = Logged(attempts, "ok")
            /\ pc' = "gen_loop"
            /\ UNCHANGED << retry_count, status, emitted, result >>
       ELSE GenFailed("rejected", resp.text)
    /\ UNCHANGED << message, username, calls, profile_data, repos, idx, enhanced_repos,
                    all_languages, cs, files, result, call_vars >>

\* step 4 begins: the repair request is sent
\* step 4 entered with the repair request sent under the status of step 3
RepairStartSilent ==
    /\ pc = "repair_start"
    /\ calls' = 0
    /\ attempts' = <<>>
    /\ pc' = "repair_await"
    /\ UNCHANGED << message, username, status, emitted, retry_count, profile_data, repos, idx,
                    enhanced_repos, all_languages, html_content, cs, files, result, call_vars >>

RepairStart ==
    /\ pc = "repair_start"
    /\ status' = Status("Validating and fixing HTML structure", 0)
    /\ emitted' = Append(emitted, status')
    /\ calls' = 0
    /\ attempts' = <<>>
    /\ pc' = "repair_await"
    /\ UNCHANGED << message, username, retry_count, profile_data, repos, idx, enhanced_repos,
                    all_languages, html_content, cs, files, result, call_vars >>

\* the html taken from the answer to the repair request
\* a repair step that has no html left when the request raises
RepairedOrNothing(resp, html) ==
    IF resp.how = "raise" THEN <<>>
    ELSE IF FenceBody(resp.text, HtmlFences) # NoneText THEN FenceBody(resp.text, HtmlFences)
    ELSE IF StartsLikeHtml(resp.text) THEN resp.text
    ELSE html

Repaired(resp, html) ==
    IF resp.how = "raise" THEN html
    ELSE IF FenceBody(resp.text, HtmlFences) # NoneText THEN FenceBody(resp.text, HtmlFences)
    ELSE IF StartsLikeHtml(resp.text) THEN resp.text
    ELSE html

\* conversation_state.save_portfolio() after generated_html was set
Saved(state) ==
    IF state.generated_html = <<>> \/ state.current_username = "" THEN state
    ELSE [state EXCEPT !.portfolio_path = state.current_username]

\* save_portfolio() opens a file: there is html and a user name
Writes(state) == state.generated_html # <<>> /\ state.current_username # ""

\* the answer to the repair request, the normalization, the save (the file
\* is written, or open() raises), the success status and the final yield
RepairReturn(resp, written) ==
    /\ pc = "repair_await"
    /\ html_content' = Normalize(Repaired(resp, html_content))
    /\ IF Writes([cs EXCEPT !.generated_html = html_content']) /\ ~written
       THEN /\ cs' = [cs EXCEPT !.generated_html = html_content']
            /\ files' = files
            /\ ErrorExit(emitted, cs')
       ELSE /\ cs' = Saved([cs EXCEPT !.generated_html = html_content'])
            /\ files' = IF Writes(cs') THEN [files EXCEPT ![cs.current_username] = html_content']
                         ELSE files
            /\ status' = Status("Enhanced portfolio website has been generated", 0)
            /\ emitted' = Append(emitted, status')
            /\ result' = [html |-> OrNone(cs'.generated_html), path |-> cs'.portfolio_path]
            /\ pc' = "done"
    /\ UNCHANGED << message, username, retry_count, calls, attempts, profile_data, repos, idx,
                    enhanced_repos, all_languages, call_vars >>

\* the general path without its except branch: a raising call leaves the
\* status as it was
GeneralReturnSilent(raised) ==
    /\ pc = "general_await"
    /\ status' = IF raised THEN status ELSE Status("agent response", 0)
    /\ emitted' = Append(emitted, status')
    /\ attempts' = Logged(attempts, IF raised THEN "raised" ELSE "ok")
    /\ result' = NoYield
    /\ pc' = "done"
    /\ UNCHANGED << message, username, retry_count, calls, profile_data, repos, idx,
                    enhanced_repos, all_languages, html_content, cs, files, call_vars >>

\* the general path that also clears the stored portfolio
GeneralReturnClearing(raised) ==
    /\ pc = "general_await"
    /\ status' = IF raised THEN Status("Error", 0) ELSE Status("agent response", 0)
    /\ emitted' = Append(emitted, status')
    /\ attempts' = Logged(attempts, IF raised THEN "raised" ELSE "ok")
    /\ result' = NoYield
    /\ cs' = FreshState
    /\ pc' = "done"
    /\ UNCHANGED << message, username, retry_count, calls, profile_data, repos, idx,
                    enhanced_repos, all_languages, html_content, files, call_vars >>

\* the answer to a request that is no portfolio request: the response, or
\* the error text, becomes the status; the final yield carries no artifact
GeneralReturn(raised) ==
    /\ pc = "general_await"
    /\ status' = IF raised THEN Status("Error", 0) ELSE Status("agent response", 0)
    /\ emitted' = Append(emitted, status')
    /\ attempts' = Logged(attempts, IF raised THEN "raised" ELSE "ok")
    /\ result' = NoYield
    /\ pc' = "done"
    /\ UNCHANGED << message, username, retry_count, calls, profile_data, repos, idx,
                    enhanced_repos, all_languages, html_content, cs, files, call_vars >>

Next ==
    \/ \E m \in Messages : Submit(m)
    \/ DetectIntent
    \/ ProfileLoop
    \/ \E resp \in ProfileResponses : ProfileReturn(resp)
    \/ EnrichStart
    \/ EnrichLoop
    \/ \E resp \in StructResponses : StructReturn(resp)
    \/ \E resp \in ReadmeResponses : ReadmeReturn(resp)
    \/ GenLoop
    \/ \E resp \in TextResponses : GenReturn(resp)
    \/ RepairStart
    \/ \E resp \in TextResponses, written \in BOOLEAN : RepairReturn(resp, written)
    \/ \E raised \in BOOLEAN : GeneralReturn(raised)

Spec == Init /\ [][Next]_vars

\* every model call returns or raises and the turn then runs on
FairSpec == Spec /\ WF_vars(Next)

(***************************************************************************)
(* Step 2 of a portfolio turn on larger repository lists                   *)
(***************************************************************************)
\* the turn after its first profile request returned a payload
InitEnrich ==
    /\ pc = "enrich_start"
    /\ message = [keyword |-> TRUE, url |-> "ada"]
    /\ username = "ada"
    /\ status = Status("Fetching GitHub profile data", 0)
    /\ emitted = << Status("Thinking...", 0), Status("Generating portfolio website for GitHub user", 0),
                    Status("Fetching GitHub profile data", 0) >>
    /\ retry_count = 0
    /\ calls = 1
    /\ attempts = << "ok" >>
    /\ profile_data \in { Payload("dict", "dict", TRUE, r) : r \in EnrichLists }
    /\ repos = <<>>
    /\ idx = 0
    /\ enhanced_repos = <<>>
    /\ all_languages = <<>>
    /\ html_content = NoneText
    /\ result = NoYield
    /\ cs = [FreshState EXCEPT !.current_username = "ada"]
    /\ files = [u \in Users |-> NoneText]
    /\ RepairIdle
    /\ NormalizeIdle
    /\ RenderIdle
    /\ OverlapIdle

NextEnrich ==
    \/ EnrichStart
    \/ EnrichLoop
    \/ \E resp \in StructResponses : StructReturn(resp)
    \/ \E resp \in ReadmeResponses : ReadmeReturn(resp)

SpecEnrich == InitEnrich /\ [][NextEnrich]_vars

(***************************************************************************)
(* complete_html_structure called on a document and on its own result      *)
(***************************************************************************)
InitRepair ==
    /\ TurnIdle
    /\ cs = FreshState
    /\ files = [u \in Users |-> NoneText]
    /\ rp_pc = "input"
    /\ rp_partial = NoPartial
    /\ rp_input \in { Doc(p) : p \in DocShapes }
    /\ rp_first = NoResult
    /\ rp_second = NoResult
    /\ NormalizeIdle
    /\ RenderIdle
    /\ OverlapIdle

\* the tool is called on the input document
RepairOnce ==
    /\ rp_pc = "input"
    /\ rp_first' = complete_html_structure(rp_input)
    /\ rp_pc' = "once"
    /\ UNCHANGED << rp_partial, rp_input, rp_second, turn_vars, nz_vars, rd_vars, ov_vars >>

\* the tool is called on the document it returned
RepairAgain ==
    /\ rp_pc = "once"
    /\ rp_second' = complete_html_structure(rp_first.html)
    /\ rp_pc' = "twice"
    /\ UNCHANGED << rp_partial, rp_input, rp_first, turn_vars, nz_vars, rd_vars, ov_vars >>

\* the tool is called on the input document and a statement of its try
\* block raises
RepairFails(point) ==
    /\ rp_pc = "input"
    /\ rp_partial' = Partial(rp_input, point)
    /\ rp_first' = Recover(rp_partial', rp_input)
    /\ rp_pc' = "failed"
    /\ UNCHANGED << rp_input, rp_second, turn_vars, nz_vars, rd_vars, ov_vars >>

NextRepair ==
    \/ RepairOnce
    \/ RepairAgain
    \/ \E point \in FailPoints : RepairFails(point)

SpecRepair == InitRepair /\ [][NextRepair]_vars

(***************************************************************************)
(* Properties of the repair                                                *)
(***************************************************************************)
AlreadyValid == << Fix("HTML structure is already valid") >>

\* C8: repairing the document a first repair returned records only the
\* entry "HTML structure is already valid" and returns the same document.
C8_RepairFixedPoint ==
    rp_pc = "twice" =>
        /\ rp_second.fixes = AlreadyValid
        /\ rp_second.html = rp_first.html

\* the children of the first element named `name`
Inner(s, name) ==
    LET i == FindTag(s, name) IN SubSeq(s, i + 1, MatchClose(s, i) - 1)

\* a text without the line breaks and closing braces a repair may add
Skel(s) == SelectSeq(s, LAMBDA t : t \notin {"NL", "}"})

HasFix(fixes, what) == \E k \in 1..Len(fixes) : fixes[k].fix = what

RECURSIVE StyleTexts(_)
\* the texts of the style elements of a document, in document order
StyleTexts(s) ==
    IF s = <<>> THEN <<>>
    ELSE IF s[1] # "<style>" THEN StyleTexts(Tail(s))
    ELSE LET c == MatchClose(s, 1)
         IN  <<SubSeq(s, 2, c - 1)>> \o StyleTexts(SubSeq(s, c + 1, Len(s)))

Deficit(css) == CountTok(css, "{") - CountTok(css, "}")

NoHtmlInput == ~HasTag(Parse(rp_input), "html")

\* C9: an input without an <html> element is wrapped in the skeleton: the
\* result starts with the doctype and has html, head and body elements, the
\* body holds the content of the input in order, the first fix entry is
\* "Added basic HTML structure", and the stylesheet, icon-font and brace
\* checks were made on the wrapped document: it has a style source, an
\* icon-font link if it uses fa- classes, and no style block lacks a brace.
C9_WrapsInputWithoutHtml ==
    (rp_pc = "once" /\ NoHtmlInput) =>
        LET out == Parse(rp_first.html)
            src == Parse(rp_input)
        IN  /\ rp_first.fixes[1] = Fix("Added basic HTML structure")
            /\ out[1] = "<!DOCTYPE html>"
            /\ HasTag(out, "html") /\ HasTag(out, "head") /\ HasTag(out, "body")
            /\ FindTag(out, "html") < FindTag(out, "head")
            /\ MatchClose(out, FindTag(out, "head")) < FindTag(out, "body")
            /\ Skel(Inner(out, "body")) = Skel(src)
            /\ HasTag(out, "style") \/ HasStylesheetLink(out)
            /\ HasFix(rp_first.fixes, "Added basic CSS")
                  <=> ~(HasTag(src, "style") \/ HasStylesheetLink(src))
            /\ UsesFa(out) => HasFaLink(out)
            /\ HasFix(rp_first.fixes, "Added Font Awesome link")
                  <=> (UsesFa(src) /\ ~HasFaLink(src))
            /\ \A k \in 1..Len(StyleTexts(out)) : Deficit(StyleTexts(out)[k]) <= 0

\* witness of C9: an input without <html> that needed the stylesheet and the
\* icon-font link as well
C9_Witness ==
    /\ rp_pc = "once" /\ NoHtmlInput
    /\ HasFix(rp_first.fixes, "Added basic CSS")
    /\ HasFix(rp_first.fixes, "Added Font Awesome link")

RECURSIVE ExpectedBraceFixes(_)
ExpectedBraceFixes(texts) ==
    IF texts = <<>> THEN <<>>
    ELSE (IF Deficit(texts[1]) > 0 THEN <<BraceFix(Deficit(texts[1]))>> ELSE <<>>)
         \o ExpectedBraceFixes(Tail(texts))

\* C10: a style block with O opening and C closing braces, O > C, comes out
\* with exactly O - C closing braces appended and one fix entry naming
\* O - C; a block with O <= C comes out unchanged with no entry; afterwards
\* no style block has more opening than closing braces.
C10_BracesBalanced ==
    rp_pc = "once" =>
        LET ins == StyleTexts(Parse(rp_input))
            outs == StyleTexts(Parse(rp_first.html))
        IN  /\ SelectSeq(rp_first.fixes, LAMBDA f : f.fix = "Added missing CSS closing braces")
                  = ExpectedBraceFixes(ins)
            /\ \A k \in 1..Len(outs) : Deficit(outs[k]) <= 0
            /\ ins # <<>> =>
                  /\ Len(outs) = Len(ins)
                  /\ \A k \in 1..Len(ins) :
                        outs[k] = IF Deficit(ins[k]) > 0
                                  THEN ins[k] \o <<"NL">> \o Repeat("}", Deficit(ins[k]))
                                  ELSE ins[k]

\* witness of C10: two style blocks that lack different numbers of braces
C10_Witness ==
    /\ rp_pc = "once"
    /\ SelectSeq(rp_first.fixes, LAMBDA f : f.fix = "Added missing CSS closing braces")
          = << BraceFix(2), BraceFix(1) >>

\* the children of <html> that are not its head element
NonHeadKids(s) ==
    LET kids == Inner(s, "html")
        i == FindTag(kids, "head")
    IN  IF HasTag(kids, "head")
        THEN SubSeq(kids, 1, i - 1) \o SubSeq(kids, MatchClose(kids, i) + 1, Len(kids))
        ELSE kids

HtmlLacksPart ==
    /\ HasTag(Parse(rp_input), "html")
    /\ ~HasTag(Parse(rp_input), "head") \/ ~HasTag(Parse(rp_input), "body")

\* C24: for an input with an <html> element that lacks <head>, <body> or
\* both, a run that does not fail returns a document whose <html> has a
\* <head> as its first child and has a <body>; a new body holds the former
\* children of <html> other than the head, in their order, each once; a
\* body that was there keeps its content; and "Added head tag" and "Added
\* body tag" are recorded once for exactly the elements that were made.
C24_HeadAndBodySynthesized ==
    (rp_pc = "once" /\ HtmlLacksPart) =>
        LET out == Parse(rp_first.html)
            src == Parse(rp_input)
            count(what) == Len(SelectSeq(rp_first.fixes, LAMBDA f : f.fix = what))
        IN  /\ HasTag(out, "html") /\ HasTag(out, "body")
            /\ TagName(out[FindTag(out, "html") + 1]) = "head"
            /\ IsOpenTok(out[FindTag(out, "html") + 1])
            /\ CountTok(out, "<body>") = 1
            /\ ~HasTag(src, "body") => Skel(Inner(out, "body")) = Skel(NonHeadKids(src))
            /\ HasTag(src, "body") => Skel(Inner(out, "body")) = Skel(Inner(src, "body"))
            /\ count("Added head tag") = (IF HasTag(src, "head") THEN 0 ELSE 1)
            /\ count("Added body tag") = (IF HasTag(src, "body") THEN 0 ELSE 1)

\* witness of C24: head and body were both made, and the body took the
\* style block and the paragraph that stood under <html>
C24_Witness ==
    /\ rp_pc = "once" /\ HtmlLacksPart
    /\ HasFix(rp_first.fixes, "Added head tag") /\ HasFix(rp_first.fixes, "Added body tag")
    /\ HasTag(Inner(Parse(rp_first.html), "body"), "style")
    /\ HasTag(Inner(Parse(rp_first.html), "body"), "p")

\* a fix of the structure, stylesheet, icon-font or brace checks is due for
\* the input document
ListedFixDue ==
    LET src == Parse(rp_input)
    IN  \/ ~HasTag(src, "html") \/ ~HasTag(src, "head") \/ ~HasTag(src, "body")
        \/ ~(HasTag(src, "style") \/ HasStylesheetLink(src))
        \/ UsesFa(src) /\ ~HasFaLink(src)
        \/ \E k \in 1..Len(StyleTexts(src)) : Deficit(StyleTexts(src)[k]) > 0

\* the entry for a valid document is never listed with another entry, and no
\* list is empty
ValidEntryAlone ==
    rp_pc \in {"once", "failed"} =>
        /\ rp_first.fixes # <<>>
        /\ HasFix(rp_first.fixes, "HTML structure is already valid") => rp_first.fixes = AlreadyValid

\* C23 (as stated): the fix list of a run is the single entry "HTML
\* structure is already valid" if and only if none of the six listed fixes
\* (basic structure, head, body, basic CSS, Font Awesome link, CSS braces)
\* fired; the list is never empty and the entry never comes with another.
C23_ValidIffNoListedFix ==
    /\ ValidEntryAlone
    /\ rp_pc = "once" => (rp_first.fixes = AlreadyValid <=> ~ListedFixDue)

\* C23 (amended): the fix list of a run that does not fail is the single
\* entry "HTML structure is already valid" if and only if none of the six
\* listed fixes fired and the returned text has the length of the input (the
\* entry "Fixed HTML structure and missing tags" was not recorded either);
\* no list is empty and the entry never comes with another.
C23_ValidIffNoFixAtAll ==
    /\ ValidEntryAlone
    /\ rp_pc = "once" =>
          (rp_first.fixes = AlreadyValid
              <=> (~ListedFixDue /\ TextLen(rp_first.html) = TextLen(rp_input)))

\* witness of C23: no listed fix was due, and the only entry is the one of
\* the comparison with the input
C23_Witness ==
    /\ rp_pc = "once" /\ ~ListedFixDue
    /\ rp_first.fixes = << Fix("Fixed HTML structure and missing tags") >>

(***************************************************************************)
(* The normalization applied to a document and to its own result           *)
(***************************************************************************)
\* documents given to the normalization: the head start tag is absent, bare,
\* has an attribute or is upper case; the head and body end tags are absent,
\* lower or upper case; a script, an icon-font reference and a description
\* meta are present or not
NormShapes ==
    [ head : {"none", "bare", "attr", "upper"}, head_end : {"none", "lower", "upper"},
      body_end : {"none", "lower", "upper"}, script : BOOLEAN, icons : {"none", "fa", "kit"},
      desc : BOOLEAN ]

NormDoc(p) ==
    << "<html>" >>
    \o (CASE p.head = "bare" -> << "<head>" >> [] p.head = "attr" -> << "<head id>" >>
           [] p.head = "upper" -> << "<HEAD>" >> [] OTHER -> <<>>)
    \o (IF p.desc THEN << "<meta desc>" >> ELSE <<>>)
    \o (CASE p.icons = "fa" -> << "<link fa>" >> [] p.icons = "kit" -> << "<link kit>" >>
           [] OTHER -> <<>>)
    \o (CASE p.head_end = "lower" -> << "</head>" >> [] p.head_end = "upper" -> << "</HEAD>" >>
           [] OTHER -> <<>>)
    \o << "<body>", "hi" >>
    \o (IF p.script THEN << "<script>", "js", "</script>" >> ELSE <<>>)
    \o (CASE p.body_end = "lower" -> << "</body>" >> [] p.body_end = "upper" -> << "</BODY>" >>
           [] OTHER -> <<>>)
    \o << "</html>" >>

InitNormalize ==
    /\ TurnIdle
    /\ cs = FreshState
    /\ files = [u \in Users |-> NoneText]
    /\ RepairIdle
    /\ RenderIdle
    /\ OverlapIdle
    /\ nz_pc = "input"
    /\ nz_input \in { NormDoc(p) : p \in NormShapes } \cup ModelTexts \cup { FallbackTemplate }
    /\ nz_first = <<>>
    /\ nz_second = <<>>

\* the three steps are applied to the input document
NormalizeOnce ==
    /\ nz_pc = "input"
    /\ nz_first' = Normalize(nz_input)
    /\ nz_pc' = "once"
    /\ UNCHANGED << nz_input, nz_second, turn_vars, rp_vars, rd_vars, ov_vars >>

\* the three steps are applied to their own result
NormalizeAgain ==
    /\ nz_pc = "once"
    /\ nz_second' = Normalize(nz_first)
    /\ nz_pc' = "twice"
    /\ UNCHANGED << nz_input, nz_first, turn_vars, rp_vars, rd_vars, ov_vars >>

NextNormalize == NormalizeOnce \/ NormalizeAgain

SpecNormalize == InitNormalize /\ [][NextNormalize]_vars

\* C12: the normalization applied to its own result changes nothing, also
\* for documents without </body>, </head> or a bare <head>.
C12_NormalizeIdempotent == nz_pc = "twice" => nz_second = nz_first

C12_Witness ==
    /\ nz_pc = "twice"
    /\ nz_first # nz_input
    /\ ~HasAny(nz_input, { "</body>", "<head>" })
    /\ nz_second = nz_first

(***************************************************************************)
(* generate_portfolio_website called on a profile payload                  *)
(***************************************************************************)
InitRender ==
    /\ TurnIdle
    /\ cs = FreshState
    /\ files = [u \in Users |-> NoneText]
    /\ RepairIdle
    /\ NormalizeIdle
    /\ OverlapIdle
    /\ rd_pc = "input"
    /\ rd_input \in RenderInputs
    /\ rd_output = [kind |-> "none"]

\* the tool is called on the payload
Render ==
    /\ rd_pc = "input"
    /\ rd_output' = generate_portfolio_website(rd_input)
    /\ rd_pc' = "called"
    /\ UNCHANGED << rd_input, turn_vars, rp_vars, nz_vars, ov_vars >>

NextRender == Render

SpecRender == InitRender /\ [][NextRender]_vars

(***************************************************************************)
(* The profile fetch followed by the renderer                              *)
(***************************************************************************)
InitFetch ==
    /\ TurnIdle
    /\ cs = FreshState
    /\ files = [u \in Users |-> NoneText]
    /\ RepairIdle
    /\ NormalizeIdle
    /\ OverlapIdle
    /\ rd_pc = "remote"
    /\ rd_input \in RemoteAnswers
    /\ rd_output = [kind |-> "none"]

\* the tool builds the payload from the answers
Fetch ==
    /\ rd_pc = "remote"
    /\ rd_input' = fetch_github_profile(FetchUser, rd_input)
    /\ rd_pc' = "input"
    /\ UNCHANGED << rd_output, turn_vars, rp_vars, nz_vars, ov_vars >>

NextFetch == Fetch \/ Render

SpecFetch == InitFetch /\ [][NextFetch]_vars

\* C13: for a payload with N repositories the page has min(N, 6) cards, one
\* for each of the first six repositories of the list sorted by stars.
C13_CardsForFirstSix ==
    (rd_pc = "called" /\ rd_input.profile # "null") =>
        /\ rd_output.kind = "html"
        /\ Len(rd_output.repos_html) = Min(Len(rd_input.repos), MaxCards)
        /\ \A i \in 1..Len(rd_output.repos_html) :
              rd_output.repos_html[i].name = SortByStars(rd_input.repos)[i].name

(***************************************************************************)
(* Two portfolio turns that overlap at their awaited calls                 *)
(***************************************************************************)
\* the page the model generates for a user
PageOf(user) == << "<html>", "<head>", "</head>", "<body>", user, "</body>", "</html>" >>

InitOverlap ==
    /\ TurnIdle
    /\ cs = FreshState
    /\ files = [u \in Users |-> NoneText]
    /\ RepairIdle
    /\ NormalizeIdle
    /\ RenderIdle
    /\ OverlapIdle

\* turn t gets a portfolio request for user: the user name is stored in
\* conversation_state and the profile request is sent
Begin(t, user) ==
    /\ ov_pc[t] = "idle"
    /\ ov_user' = [ov_user EXCEPT ![t] = user]
    /\ cs' = [cs EXCEPT !.current_username = user]
    /\ ov_pc' = [ov_pc EXCEPT ![t] = "profile_await"]
    /\ UNCHANGED << ov_html, ov_result, files, local_vars, rp_vars, nz_vars, rd_vars >>

\* the profile request of turn t returns and the enrichment runs; with a
\* payload that is no object the turn ends in the error state, and its
\* final yield takes what conversation_state holds
Fetched(t, usable) ==
    /\ ov_pc[t] = "profile_await"
    /\ IF usable
       THEN /\ ov_pc' = [ov_pc EXCEPT ![t] = "gen_await"]
            /\ UNCHANGED ov_result
       ELSE /\ ov_pc' = [ov_pc EXCEPT ![t] = "failed"]
            /\ ov_result' = [ov_result EXCEPT
                                ![t] = [html |-> OrNone(cs.generated_html), path |-> cs.portfolio_path]]
    /\ UNCHANGED << ov_user, ov_html, cs, files, local_vars, rp_vars, nz_vars, rd_vars >>

\* the generation request of turn t returns the page for its user and the
\* repair request is sent
Generated(t) ==
    /\ ov_pc[t] = "gen_await"
    /\ ov_html' = [ov_html EXCEPT ![t] = PageOf(ov_user[t])]
    /\ ov_pc' = [ov_pc EXCEPT ![t] = "repair_await"]
    /\ UNCHANGED << ov_user, ov_result, cs, files, local_vars, rp_vars, nz_vars, rd_vars >>

\* the repair request of turn t returns: normalization, generated_html is
\* set, save_portfolio() writes under current_username, final yield
Finished(t) ==
    /\ ov_pc[t] = "repair_await"
    /\ ov_html' = [ov_html EXCEPT ![t] = Normalize(ov_html[t])]
    /\ cs' = Saved([cs EXCEPT !.generated_html = ov_html'[t]])
    /\ files' = IF Writes(cs') THEN [files EXCEPT ![cs.current_username] = ov_html'[t]] ELSE files
    /\ ov_result' = [ov_result EXCEPT
                        ![t] = [html |-> OrNone(cs'.generated_html), path |-> cs'.portfolio_path]]
    /\ ov_pc' = [ov_pc EXCEPT ![t] = "done"]
    /\ UNCHANGED << ov_user, local_vars, rp_vars, nz_vars, rd_vars >>

NextOverlap ==
    \E t \in Turns :
        \/ \E user \in Users : Begin(t, user)
        \/ \E usable \in BOOLEAN : Fetched(t, usable)
        \/ Generated(t)
        \/ Finished(t)

SpecOverlap == InitOverlap /\ [][NextOverlap]_vars

\* C18: with two overlapping portfolio turns, the file under a user name
\* holds the page generated for that user, and a turn that ends in success
\* gives its own page and the path of its own user.
C18_ArtifactBelongsToOneTurn ==
    /\ \A u \in Users : files[u] # NoneText => files[u] = Normalize(PageOf(u))
    /\ \A t \in Turns :
          ov_pc[t] = "done" =>
              /\ ov_result[t].html = Normalize(PageOf(ov_user[t]))
              /\ ov_result[t].path = ov_user[t]

\* C11: a run of the repair in which a statement raises returns the input
\* as it was given and exactly one entry, the explanation, also when fixes
\* had been applied before the failure.
C11_FailureReturnsInput ==
    rp_pc = "failed" =>
        /\ rp_first.html = rp_input
        /\ rp_first.fixes = << Fix("Error checking HTML structure") >>

C11_Witness ==
    /\ rp_pc = "failed"
    /\ rp_partial.fixes # <<>>
    /\ rp_partial.fixed # rp_input
    /\ rp_first.html = rp_input

(***************************************************************************)
(* Properties of the chat turn                                             *)
(***************************************************************************)
\* how many times a status with this text was shown
Notified(text) == Cardinality({ i \in 1..Len(emitted) : emitted[i].text = text })

\* the attempt ended without a value the loop accepts
Failure == { "raised", "unusable", "rejected" }

FailedTwiceThenOk(log) ==
    Len(log) = 3 /\ log[1] \in Failure /\ log[2] \in Failure /\ log[3] = "ok"

AllFailed(log) == Len(log) = max_retries /\ \A i \in 1..Len(log) : log[i] \in Failure

Succeeded == pc = "done" /\ status = Status("Enhanced portfolio website has been generated", 0)

\* C1: in the profile loop and in the generation loop the model call is
\* issued at most max_retries times, whatever the model answers.
C1_CallsBounded == calls <= max_retries

\* C2: every turn reaches its end and gives its final output, provided that
\* every model call returns or raises.
C2_TurnTerminates == <>(pc = "done")

\* C3: the artifact of a turn that ends in success has an html, a head and a
\* body element, a style element or stylesheet link, and a script element.
C3_ArtifactComplete ==
    Succeeded =>
        /\ result.html # NoneText
        /\ LET soup == Parse(result.html)
           IN  /\ HasTag(soup, "html")
               /\ HasTag(soup, "head")
               /\ HasTag(soup, "body")
               /\ HasTag(soup, "style") \/ HasStylesheetLink(soup)
               /\ HasTag(soup, "script")

\* C4: after a generation attempt whose unfenced text failed the HTML check,
\* the generation loop holds no html (it retries) or the fallback template
\* (it is exhausted); the rejected text is never the html carried forward.
C4_RejectedTextNotCarried ==
    (pc = "gen_loop" /\ attempts # <<>> /\ attempts[Len(attempts)] = "rejected")
        => html_content \in { NoneText, FallbackTemplate }

\* C5: when a retry loop ends after two failed attempts and a third one that
\* succeeded, two retry statuses and no exhaustion status were shown, and the
\* value of the third attempt goes on unchanged.
C5_TwoFailuresThenSuccess ==
    [][ /\ (pc = "profile_loop" /\ pc' = "enrich_start" /\ FailedTwiceThenOk(attempts))
            => /\ Notified("Retrying profile fetch") = 2
               /\ Notified("Error fetching profile after 3 attempts") = 0
               /\ profile_data' = profile_data
        /\ (pc = "gen_loop" /\ pc' = "repair_start" /\ FailedTwiceThenOk(attempts))
            => /\ Notified("Retrying website generation") = 2
               /\ Notified("Error generating website after 3 attempts") = 0
               /\ html_content' = html_content
               /\ html_content # FallbackTemplate ]_vars

\* C6: when all three attempts of a retry loop failed, three failure statuses
\* and then one exhaustion status were shown and the fallback value is used.
C6_ThreeFailuresThenExhaustion ==
    /\ (pc = "enrich_start" /\ AllFailed(attempts))
          => /\ Notified("Retrying profile fetch") = 3
             /\ Notified("Error fetching profile after 3 attempts") = 1
             /\ status.text = "Error fetching profile after 3 attempts"
             /\ profile_data = BasicProfile
    /\ (pc = "repair_start" /\ AllFailed(attempts))
          => /\ Notified("Retrying website generation") = 3
             /\ Notified("Error generating website after 3 attempts") = 1
             /\ status.text = "Error generating website after 3 attempts"
             /\ html_content = FallbackTemplate

\* C7: a turn in which the profile loop or the generation loop was exhausted
\* ends in success with an artifact, not in the error state.
C7_ExhaustionNeverAborts ==
    ( /\ pc = "done"
      /\ \/ Notified("Error fetching profile after 3 attempts") > 0
         \/ Notified("Error generating website after 3 attempts") > 0 )
        => (Succeeded /\ result.html # NoneText)

\* the named repositories among those the enrichment loop has gone through
NamedSoFar == SelectSeq(SubSeq(repos, 1, idx - 1), LAMBDA r : r.name # "")

\* the record is the basic one: the enrichment of the repository failed
IsBasic(r) == "detailed_description" \notin DOMAIN r

\* C19: a failure while one repository is enriched does not end the batch or
\* the turn; the repositories gone through so far are all in the output
\* list, in order, a failed one as its basic record.
C19_EnrichmentIsolated ==
    [][ /\ pc \in {"enrich_loop", "struct_await", "readme_await"} => pc' # "done"
        /\ pc' = "enrich_loop" =>
              /\ Len(enhanced_repos') = Len(NamedSoFar')
              /\ \A i \in 1..Len(enhanced_repos') :
                    /\ enhanced_repos'[i].name = NamedSoFar'[i].name
                    /\ IsBasic(enhanced_repos'[i]) => enhanced_repos'[i] = NamedSoFar'[i] ]_vars

\* C14: for the payload with the one repository x (Rust, 10 stars) and no
\* other language seen, the skills hold Rust at level 20, and the rendered
\* page has a card for x with 10 stars and a Rust skill item of width 20,
\* whether the structure request failed or named no language.
C14_RustEndToEnd ==
    ( /\ pc = "gen_loop"
      /\ repos = << RepoX >>
      /\ \A i \in 1..Len(all_languages) : all_languages[i].name = "Rust" )
        => LET page == generate_portfolio_website(profile_data)
           IN  /\ \E i \in 1..Len(profile_data.skills) :
                     profile_data.skills[i] = [name |-> "Rust", level |-> 20]
               /\ \E i \in 1..Len(page.repos_html) :
                     page.repos_html[i].name = "x" /\ page.repos_html[i].stars = 10
               /\ \E i \in 1..Len(page.skills_html) :
                     page.skills_html[i] = [name |-> "Rust", width |-> 20]

\* the turn went into the portfolio pipeline
OnPortfolioPath == Notified("Fetching GitHub profile data") > 0

\* C15: a turn takes the portfolio path exactly when its message has the
\* keyword and a GitHub URL with a user name, and the user name it works
\* with is the one written in that URL.
C15_IntentAndUsername ==
    pc \notin {"idle", "started"} =>
        /\ OnPortfolioPath <=> (message.keyword /\ message.url \in UrlNames)
        /\ OnPortfolioPath => username = message.url

\* the turn ended in the error state of the portfolio path
PortfolioError == pc = "done" /\ status.text = "Error generating portfolio"

\* C16: a turn that reaches its end no longer shows the Thinking...
\* placeholder, and its status does not change once the end is reached.
C16_StatusSettled ==
    [][ /\ pc' = "done" => status'.text # "Thinking..."
        /\ pc = "done" => status' = status ]_vars

C16_Witness == pc = "done" /\ status.text = "Error" /\ attempts = << "raised" >>

\* C17: a portfolio turn that ends in the error state gives no artifact html
\* and no artifact path in its final output.
C17_ErrorCarriesNoArtifact == PortfolioError => result = NoYield

StageOfStatus(text) ==
    CASE text \in { "Fetching GitHub profile data", "Retrying profile fetch",
                    "Error fetching profile after 3 attempts" } -> "FetchProfile"
      [] text = "Fetching repository details" -> "EnrichProfile"
      [] text \in { "Generating enhanced portfolio website", "Retrying website generation",
                    "Error generating website after 3 attempts" } -> "GenerateSite"
      [] text = "Validating and fixing HTML structure" -> "RepairSite"
      [] OTHER -> "none"

\* the stage whose call is outstanding
StageOfCall(at) ==
    CASE at = "profile_await" -> "FetchProfile"
      [] at \in { "struct_await", "readme_await" } -> "EnrichProfile"
      [] at = "gen_await" -> "GenerateSite"
      [] at = "repair_await" -> "RepairSite"
      [] OTHER -> "none"

\* C25: while a call of the portfolio path is outstanding, the status shown
\* is one of the stage of that call and it is the last status that was
\* emitted; the status of a stage is first shown when no call of an earlier
\* stage is outstanding.
C25_StatusBeforeCall ==
    [][ /\ StageOfCall(pc') # "none" =>
              /\ StageOfStatus(status'.text) = StageOfCall(pc')
              /\ emitted'[Len(emitted')] = status'
        /\ (StageOfCall(pc) # "none" /\ status' # status) =>
              StageOfStatus(status'.text) \in { StageOfCall(pc), "none" } ]_vars

\* witness of C25: the repair request is outstanding under the status of
\* the repair stage, after the statuses of the three stages before it
C25_Witness ==
    /\ pc = "repair_await"
    /\ status.text = "Validating and fixing HTML structure"
    /\ Notified("Fetching GitHub profile data") > 0
    /\ Notified("Fetching repository details") > 0
    /\ Notified("Generating enhanced portfolio website") > 0

\* the stage of the turn; the final step (normalization, save, final yield)
\* is taken with the return of the repair request
Stage(at) ==
    CASE at \in { "idle", "done" } -> "Idle"
      [] at = "started" -> "DetectIntent"
      [] at \in { "profile_loop", "profile_await" } -> "FetchProfile"
      [] at \in { "enrich_start", "enrich_loop", "struct_await", "readme_await" } -> "EnrichProfile"
      [] at \in { "gen_loop", "gen_await" } -> "GenerateSite"
      [] at \in { "repair_start", "repair_await" } -> "RepairSite"
      [] OTHER -> "GeneralQuery"

\* the stages that may follow a stage
StageAfter(stage) ==
    CASE stage = "DetectIntent" -> { "FetchProfile", "GeneralQuery" }
      [] stage = "FetchProfile" -> { "EnrichProfile", "Idle" }
      [] stage = "EnrichProfile" -> { "GenerateSite", "Idle" }
      [] stage = "GenerateSite" -> { "RepairSite", "Idle" }
      [] stage \in { "RepairSite", "GeneralQuery" } -> { "Idle" }
      [] OTHER -> { "DetectIntent" }

\* a step stays in its stage or goes to a stage that may follow it
StageOrder == [][ Stage(pc') = Stage(pc) \/ Stage(pc') \in StageAfter(Stage(pc)) ]_vars

\* C26: a turn goes through the stages in the order DetectIntent,
\* FetchProfile, EnrichProfile, GenerateSite, RepairSite (with the final
\* step), entering each at most once, or through GeneralQuery alone, and
\* then returns to Idle.
C26_StagesInOrderThenIdle ==
    /\ StageOrder
    /\ (Stage(pc) = "DetectIntent") ~> (pc = "done")

(***************************************************************************)
(* Properties of step 2: sort, enrichment, language counts, skills         *)
(***************************************************************************)
\* the count of a language in the histogram, 0 if it is not there
CountOf(langs, name) ==
    IF \E i \in 1..Len(langs) : langs[i].name = name
    THEN (CHOOSE e \in { langs[i] : i \in 1..Len(langs) } : e.name = name).count
    ELSE 0

\* the place of x in a sequence of distinct items
PosOf(seq, x) == CHOOSE i \in 1..Len(seq) : seq[i] = x

\* the step that ends the enrichment loop and derives the skills
Derives == pc = "enrich_loop" /\ pc' = "gen_loop"

\* the answer to a structure request adds at most one occurrence, to one
\* language, and leaves the languages counted before at their places
CountsOnce ==
    LET changed == { i \in 1..Len(all_languages') :
                        i > Len(all_languages) \/ all_languages'[i] # all_languages[i] }
    IN  /\ Len(all_languages') >= Len(all_languages)
        /\ Cardinality(changed) <= 1
        /\ \A i \in 1..Len(all_languages) : all_languages'[i].name = all_languages[i].name
        /\ \A i \in changed :
              all_languages'[i].count = 1 + CountOf(all_languages, all_languages'[i].name)

StarsOf(repo) == IF repo.stars = NullStars THEN 0 ELSE repo.stars

\* C22: the enrichment works on the repositories in descending order of
\* stars, repositories with equal stars in the order of the payload, also
\* when star fields are missing or null.
C22_SortedByStars ==
    pc \in { "enrich_loop", "struct_await", "readme_await" } =>
        /\ Len(repos) = Len(profile_data.repos)
        /\ \A i, j \in 1..Len(repos) :
              i < j =>
                 \/ StarsOf(repos[i]) > StarsOf(repos[j])
                 \/ /\ StarsOf(repos[i]) = StarsOf(repos[j])
                    /\ PosOf(profile_data.repos, repos[i]) < PosOf(profile_data.repos, repos[j])

\* C27: when the enrichment ends, the payload has one record for each of
\* the first five repositories, in the order of processing, each with the
\* fields of its input record, and no repository of the input is gone.
C27_EnrichmentAdditive ==
    [][ Derives =>
          LET out == profile_data'.repos
              taken == Min(MaxEnriched, Len(repos))
          IN  /\ Len(out) >= taken
              /\ \A i \in 1..taken :
                    /\ out[i].name = repos[i].name
                    /\ out[i].language = repos[i].language
                    /\ out[i].stars = repos[i].stars
                    /\ out[i].description = repos[i].description
              /\ \A i \in 1..Len(repos) : \E j \in 1..Len(out) : out[j].name = repos[i].name ]_vars

\* C28: for each processed repository a language is counted: the indicator
\* of the structure text, or, when the structure step fails or gives no
\* indicator, the recorded language of the repository if it has one.
C28_LanguageCounted ==
    [][ (pc = "struct_await" /\ repos[idx].language # "") =>
          /\ all_languages' # all_languages
          /\ CountsOnce ]_vars

\* C29: with an empty histogram and repositories, the skills are the
\* distinct non-empty recorded languages, each once at level 80; with a
\* histogram the skills are its languages; without repositories there are
\* no skills.
C29_FallbackSkills ==
    [][ Derives =>
          LET skills == profile_data'.skills
              names == { skills[i].name : i \in 1..Len(skills) }
              recorded == { repos[i].language : i \in 1..Len(repos) } \ {""}
          IN  /\ Len(skills) = Cardinality(names)
              /\ repos = <<>> => skills = <<>>
              /\ all_languages = <<>> =>
                    /\ names = recorded
                    /\ \A i \in 1..Len(skills) : skills[i].level = 80
              /\ all_languages # <<>> =>
                    names = { all_languages[i].name : i \in 1..Len(all_languages) } ]_vars

\* witness of C29: no structure request gave a count, the five repositories
\* record Rust, Go and for one no language, and there are two skills
C29_Witness ==
    /\ pc = "gen_loop"
    /\ all_languages = <<>>
    /\ Len(repos) = 5
    /\ \E i \in 1..Len(repos) : repos[i].language = ""
    /\ { profile_data.skills[i] : i \in 1..Len(profile_data.skills) }
          = { [name |-> "Rust", level |-> 80], [name |-> "Go", level |-> 80] }

\* C30: the skills derived from the histogram are in descending order of
\* occurrences, languages with equal occurrences in the order in which they
\* were first counted.
C30_SkillsOrdered ==
    [][ /\ pc = "struct_await" =>
              \A i \in 1..Len(all_languages) : all_languages'[i].name = all_languages[i].name
        /\ (Derives /\ all_languages # <<>>) =>
              LET skills == profile_data'.skills
                  first(name) == CHOOSE k \in 1..Len(all_languages) : all_languages[k].name = name
              IN  \A i, j \in 1..Len(skills) :
                     i < j =>
                        \/ CountOf(all_languages, skills[i].name) > CountOf(all_languages, skills[j].name)
                        \/ /\ CountOf(all_languages, skills[i].name) = CountOf(all_languages, skills[j].name)
                           /\ first(skills[i].name) < first(skills[j].name) ]_vars

\* witness of C30: Rust was counted first, Go more often, and Go comes first
C30_Witness ==
    /\ pc = "gen_loop"
    /\ all_languages = << [name |-> "Rust", count |-> 2], [name |-> "Go", count |-> 3] >>
    /\ profile_data.skills = << [name |-> "Go", level |-> 60], [name |-> "Rust", level |-> 40] >>

\* the repository at idx is among the first five of the payload in star order
AmongFirstFive ==
    Cardinality({ k \in 1..Len(profile_data.repos) :
                     StarsOf(profile_data.repos[k]) > StarsOf(repos[idx]) }) < MaxEnriched

\* C31: a structure request is sent only for one of the first five
\* repositories in star order, once, and is followed by at most one README
\* request, sent only if the repository has no description; after them the
\* loop goes to the next repository, and no record is added without a
\* structure request.
C31_EnrichmentCallBudget ==
    [][ /\ pc' = "struct_await" =>
              /\ pc = "enrich_loop" /\ idx' = idx
              /\ idx <= MaxEnriched
              /\ AmongFirstFive
        /\ pc' = "readme_await" =>
              /\ pc = "struct_await" /\ idx' = idx
              /\ repos[idx].description = ""
        /\ pc = "struct_await" =>
              \/ pc' = "readme_await"
              \/ pc' = "enrich_loop" /\ idx' = idx + 1
        /\ pc = "readme_await" => (pc' = "enrich_loop" /\ idx' = idx + 1)
        /\ enhanced_repos' # enhanced_repos => pc \in { "struct_await", "readme_await" } ]_vars

RECURSIVE SumCounts(_)
\* the sum of the counts of the histogram
SumCounts(langs) == IF langs = <<>> THEN 0 ELSE Head(langs).count + SumCounts(Tail(langs))

\* the repositories whose structure request has been answered
Processed == IF pc = "readme_await" THEN idx ELSE idx - 1

\* C37: the answer to a structure request raises the histogram by at most
\* one occurrence of one language, so the counts never add up to more than
\* the number of repositories processed, which is at most five.
C37_OneCountPerRepository ==
    pc \in { "enrich_loop", "struct_await", "readme_await", "gen_loop" } =>
        /\ SumCounts(all_languages) <= Processed
        /\ Processed <= MaxEnriched
        /\ \A i \in 1..Len(enhanced_repos) :
              "languages" \in DOMAIN enhanced_repos[i] => Len(enhanced_repos[i].languages) <= i

\* witness of C37: five repositories counted, for two languages, one of the
\* counts being for the indicator of a repository that records no language
C37_Witness ==
    /\ pc = "gen_loop"
    /\ all_languages = << [name |-> "Rust", count |-> 2], [name |-> "Go", count |-> 3] >>
    /\ \E i \in 1..Len(repos) : repos[i].language = ""

\* the repair request raised, or its answer has no fenced block and does not
\* start, after leading white space, with a doctype or an <html tag
RepairUnusable(resp) ==
    \/ resp.how = "raise"
    \/ /\ \A i \in 1..Len(resp.text) : resp.text[i] \notin { "[fence]", "[fence html]", "[fence json]" }
       /\ \A i \in 1..Len(resp.text) :
             resp.text[i] \in { "<!DOCTYPE html>", "<html>", "<html lang>" } =>
                 \E j \in 1..(i - 1) : resp.text[j] # "NL"

\* C34: a repair request that raises or gives no usable answer leaves
\* html_content as the generation step made it; the step that follows
\* normalizes it and ends the turn in success, or in the error state only
\* after the page was stored, when its file could not be written.
C34_RepairFailureCarriesHtml ==
    [][ pc = "repair_await" =>
          /\ \A r \in TextResponses : RepairUnusable(r) => Repaired(r, html_content) = html_content
          /\ pc' = "done"
          /\ html_content' = Normalize(html_content) =>
                /\ cs'.generated_html = html_content'
                /\ \/ status'.text = "Enhanced portfolio website has been generated"
                   \/ /\ status'.text = "Error generating portfolio"
                      /\ files' = files
                      /\ cs'.portfolio_path = cs.portfolio_path ]_vars

\* witness of C34: the template of the exhausted generation went through the
\* repair step as it was and is the artifact of a successful turn
C34_Witness ==
    /\ pc = "done"
    /\ status.text = "Enhanced portfolio website has been generated"
    /\ Notified("Error generating website after 3 attempts") = 1
    /\ result.html = Normalize(FallbackTemplate)

\* C36: a portfolio turn that ends in the error state leaves the stored
\* html, path and user name as they were before the turn, so the path, when
\* set, is the one of the stored user name.
C36_ErrorLeavesArtifact ==
    PortfolioError =>
        /\ cs \in { FreshState, EarlierState }
        /\ cs.portfolio_path # "" => cs.portfolio_path = cs.current_username

\* the default of a profile field
DefaultOf(key) == IF key = "name" THEN FetchUser ELSE IF key = "followers" THEN "0" ELSE ""

\* the key of the remote answer that a profile field is taken from
RemoteKey(key) == IF key = "twitter" THEN "twitter_username" ELSE key

\* C35: every field of the profile that the fetch returns holds its default
\* when the remote field is missing or null, and no field is null.
C35_DefaultsForAbsentFields ==
    [][ rd_pc = "remote" =>
          \A key \in DOMAIN rd_input'.fields :
              /\ rd_input'.fields[key] # Null
              /\ rd_input.profile[RemoteKey(key)] \in { Absent, Null } =>
                    rd_input'.fields[key] = DefaultOf(key) ]_vars

\* the payload is the one the fetch built
FromFetch ==
    /\ rd_pc \in { "input", "called" }
    /\ "fields" \in DOMAIN rd_input
    /\ "twitter" \in DOMAIN rd_input.fields

\* the blocks of a kind in a part of the page
BlocksOf(part, kind) == { i \in 1..Len(part) : part[i].block = kind }

\* C38: a social handle that the fetch put into the profile is the one the
\* renderer reads, and the page has the twitter contact block and the twitter
\* link of the footer with it.
C38_SocialHandleReachesRenderer ==
    (FromFetch /\ ~Falsy(rd_input.fields.twitter)) =>
        /\ ProfileField(rd_input, "twitter_username", "") = rd_input.fields.twitter
        /\ rd_pc = "called" =>
              /\ rd_output.kind = "html"
              /\ \E i \in BlocksOf(rd_output.contact, "twitter") :
                    rd_output.contact[i].text = rd_input.fields.twitter
              /\ \E i \in BlocksOf(rd_output.footer, "twitter") :
                    rd_output.footer[i].text = rd_input.fields.twitter

\* a grid holds the placeholder, or items
HasPlaceholder(grid, text) == \E i \in 1..Len(grid) : grid[i] = [placeholder |-> text]

HasItems(grid) == \E i \in 1..Len(grid) : "item" \in DOMAIN grid[i]

\* C32: the skills grid of the page holds the placeholder exactly when the
\* rendered skills list is empty, the projects grid exactly when the
\* repository list is empty; no grid is empty or holds both.
C32_PlaceholderIffEmpty ==
    (rd_pc = "called" /\ rd_input.profile # "null") =>
        /\ rd_output.kind = "html"
        /\ HasPlaceholder(rd_output.skills_grid, "No skills data available")
              <=> RenderSkills(rd_input, SortByStars(rd_input.repos)) = <<>>
        /\ HasPlaceholder(rd_output.repos_grid, "No repositories available")
              <=> rd_input.repos = <<>>
        /\ \A grid \in { rd_output.skills_grid, rd_output.repos_grid } :
              /\ grid # <<>>
              /\ \A i \in 1..Len(grid) : DOMAIN grid[i] \in { {"placeholder"}, {"item"} }
              /\ HasItems(grid) <=> \A i \in 1..Len(grid) : "item" \in DOMAIN grid[i]

\* the detailed description of a repository is set and is not the
\* description shown on its card
DetailDiffers(repo) ==
    /\ "detailed_description" \in DOMAIN repo
    /\ repo.detailed_description # ""
    /\ repo.description # ""
    /\ repo.detailed_description # repo.description

\* C33: the page has the location, blog and twitter block, the twitter and
\* blog link of the footer, the language of a card and its detailed
\* description exactly when the field is not empty, the detailed description
\* only when it is not the description shown.
C33_BlocksIffFieldSet ==
    (rd_pc = "called" /\ rd_input.profile # "null") =>
        /\ rd_output.kind = "html"
        /\ \A kind \in { "location", "blog", "twitter" } :
              LET field == IF kind = "twitter" THEN "twitter_username" ELSE kind
              IN  /\ BlocksOf(rd_output.contact, kind) # {}
                        <=> ~Falsy(ProfileField(rd_input, field, ""))
                  /\ kind # "location" =>
                        (BlocksOf(rd_output.footer, kind) # {}
                            <=> ~Falsy(ProfileField(rd_input, field, "")))
        /\ \A i \in 1..Len(rd_output.repos_html) :
              LET repo == SortByStars(rd_input.repos)[i]
              IN  /\ rd_output.repos_html[i].language # "" <=> repo.language # ""
                  /\ rd_output.repos_html[i].detailed_desc # "" <=> DetailDiffers(repo)

\* C39: for every payload the call of the renderer returns a page.
C39_RendererTotal == rd_pc = "called" => rd_output.kind = "html"

====
